---- MODULE Spec2Model ----
(***************************************************************************)
(* Cluster-based permutation tests of eelbrain/_stats/testnd.py: the       *)
(* _ClusterDist object (original map, null distribution, finalize,         *)
(* queries) and the worker pool that fills the null distribution.          *)
(*                                                                         *)
(* Encoding.  In the lifecycle specifications a statistic map has one grid *)
(* axis (time), cropped to the window when tstart is given.  Maps over a   *)
(* source space (one non-grid axis with a connectivity graph and an        *)
(* optional parcellation) and maps with two axes (peaks) have their own    *)
(* specifications.  A Python value that may be None is a sequence of       *)
(* length <= 1: None is << >> and x is << x >>.  Rows of the null          *)
(* distribution are indexed 1..samples (row i of the model is row i-1 of   *)
(* the code).  A p-value n/samples is stored as its numerator n, so the    *)
(* value 1.0 is stored as `samples`.  A map given to the TFCE integrator   *)
(* holds multiples of dh; an enhanced value is stored in units of          *)
(* dh^2 / 1000.                                                            *)
(***************************************************************************)
EXTENDS Integers, Sequences, FiniteSets, TLC

(* ------------------------------ bounds -------------------------------- *)
MaxSamples == 2
MaxWorkers == 2
MapLen == 2
NPerms == 2
NEffects == 2
LabLen == 5
NSources == 3
TfceLen == 4
TfceMax == 3
PeakCols == 2

StatVals == {-2, 0, 2}
Maps == [1..MapLen -> StatVals]
FMaps == [1..MapLen -> {0, 2}]
Thresholds == {<< >>, <<1>>}
Tails == {-1, 0, 1}
CriteriaArgs == {<< >>, <<2>>}
Perms == 1..NPerms
Effects == 1..NEffects

None == << >>
Some(x) == << x >>
IsNone(o) == o = << >>
Val(o) == o[1]

(* ------------------------------ helpers ------------------------------- *)
Abs(x) == IF x < 0 THEN -x ELSE x

SetMax(S) == CHOOSE x \in S : \A y \in S : y <= x

SetMin(S) == CHOOSE x \in S : \A y \in S : x <= y

Range(s) == {s[i] : i \in DOMAIN s}

RECURSIVE SumOver(_, _)
SumOver(f, S) ==
    IF S = {} THEN 0
    ELSE LET j == CHOOSE x \in S : TRUE IN f[j] + SumOver(f, S \ {j})

RECURSIVE SelectSeqBy(_, _)
SelectSeqBy(s, keep) ==
    IF s = << >> THEN << >>
    ELSE IF Head(s) \in keep THEN <<Head(s)>> \o SelectSeqBy(Tail(s), keep)
    ELSE SelectSeqBy(Tail(s), keep)

(* ---------------------------- the labeler ----------------------------- *)
\* scipy.ndimage.label on a 1-D boolean map: runs numbered from the left
NdimageLabel(bin_map) ==
    [j \in DOMAIN bin_map |->
        IF bin_map[j]
        THEN Cardinality({i \in 1..j : bin_map[i] /\ (i = 1 \/ ~bin_map[i - 1])})
        ELSE 0]

\* mutant: a component whose extent equals v is dropped too, `<= v`
RECURSIVE ApplyCriteria_AtMost(_, _, _)
ApplyCriteria_AtMost(cmap, cids, criteria) ==
    IF criteria = << >> \/ cids = << >> THEN cids
    ELSE LET v == Head(criteria)
             small == {i \in Range(cids) :
                         Cardinality({j \in DOMAIN cmap : cmap[j] = i}) <= v}
         IN ApplyCriteria_AtMost(cmap, SelectSeqBy(cids, Range(cids) \ small), Tail(criteria))

\* one criterion (axes, v): drop ids occupying fewer than v positions
RECURSIVE ApplyCriteria(_, _, _)
ApplyCriteria(cmap, cids, criteria) ==
    IF criteria = << >> \/ cids = << >> THEN cids
    ELSE LET v == Head(criteria)
             small == {i \in Range(cids) :
                         Cardinality({j \in DOMAIN cmap : cmap[j] = i}) < v}
         IN ApplyCriteria(cmap, SelectSeqBy(cids, Range(cids) \ small), Tail(criteria))

\* returns the label buffer and the surviving ids; criteria is None or a
\* sequence of minimum extents
LabelClustersBinary(bin_map, criteria) ==
    LET cmap == NdimageLabel(bin_map)
        n == SetMax(Range(cmap) \cup {0})
        cids == [i \in 1..n |-> i]
    IN [cmap |-> cmap,
        cids |-> IF IsNone(criteria) THEN cids
                 ELSE ApplyCriteria(cmap, cids, Val(criteria))]

\* mutant: the negative ids are offset by the number of surviving positive
\* ids, x = len(cids), not by the largest positive label
LabelClusters_OffsetBySurvivors(stat_map, threshold, tail, criteria) ==
    LET above == [j \in DOMAIN stat_map |-> stat_map[j] > threshold]
        below == [j \in DOMAIN stat_map |-> stat_map[j] < -threshold]
        up == LabelClustersBinary(above, criteria)
        lo == LabelClustersBinary(below, criteria)
        x == Len(up.cids)
        int_buff == [j \in DOMAIN stat_map |->
                        IF below[j] THEN lo.cmap[j] + x ELSE lo.cmap[j]]
    IN IF tail > 0 THEN up
       ELSE IF tail < 0 THEN lo
       ELSE [cmap |-> [j \in DOMAIN stat_map |-> up.cmap[j] + int_buff[j]],
             cids |-> up.cids \o [i \in DOMAIN lo.cids |-> lo.cids[i] + x]]

LabelClusters(stat_map, threshold, tail, criteria) ==
    LET above == [j \in DOMAIN stat_map |-> stat_map[j] > threshold]
        below == [j \in DOMAIN stat_map |-> stat_map[j] < -threshold]
        up == LabelClustersBinary(above, criteria)
        lo == LabelClustersBinary(below, criteria)
        x == SetMax(Range(up.cmap) \cup {0})
        int_buff == [j \in DOMAIN stat_map |->
                        IF below[j] THEN lo.cmap[j] + x ELSE lo.cmap[j]]
    IN IF tail > 0 THEN up
       ELSE IF tail < 0 THEN lo
       ELSE [cmap |-> [j \in DOMAIN stat_map |-> up.cmap[j] + int_buff[j]],
             cids |-> up.cids \o [i \in DOMAIN lo.cids |-> lo.cids[i] + x]]

\* scipy.ndimage.sum(input, labels, index): one sum per id of index
NdimageSum(input, labels, index) ==
    [i \in DOMAIN index |->
        SumOver(input, {j \in DOMAIN labels : labels[j] = index[i]})]

(* ------------------- threshold-free cluster enhancement --------------- *)
\* In a map given to tfce the statistic is a whole multiple of dh = 0.1 and
\* is stored as that multiple, so the height k * dh is stored as k.

\* n ** e for e = 0.5, in thousandths (rounded down)
SqrtMilli == <<1000, 1414, 1732, 2000, 2236, 2449, 2645, 2828>>

\* _tfce, "determine slices": np.arange(dh, stat_map.max(), dh) and
\* np.arange(-dh, stat_map.min(), -dh); the stop is not a slice
TfceHeights(stat_map, tail) ==
    LET up == 1..(SetMax(Range(stat_map)) - 1)
        down == {-k : k \in 1..(-SetMin(Range(stat_map)) - 1)}
    IN IF tail = 0 THEN down \cup up
       ELSE IF tail < 0 THEN down
       ELSE up

\* mutant: a slice holds the samples strictly beyond the height, np.greater
\* and np.less
tfce_Strict(stat_map, tail) ==
    LET slice(h_) ==
            LET bin_buff == [j \in DOMAIN stat_map |->
                                IF h_ > 0 THEN stat_map[j] > h_ ELSE stat_map[j] < h_]
                h_factor == h_ * h_
                l == LabelClustersBinary(bin_buff, None)
            IN [j \in DOMAIN stat_map |->
                   IF l.cmap[j] \in Range(l.cids)
                   THEN SqrtMilli[Cardinality({i \in DOMAIN stat_map : l.cmap[i] = l.cmap[j]})]
                        * h_factor
                   ELSE 0]
        hs == TfceHeights(stat_map, tail)
        slices == [h_ \in hs |-> slice(h_)]
    IN [j \in DOMAIN stat_map |-> SumOver([h_ \in hs |-> slices[h_][j]], hs)]

\* tfce(stat_map, tail, connectivity) with connectivity None: _tfce with
\* dh=0.1, e=0.5, h=2.0; the enhanced values are in units of dh ** 2 / 1000
tfce(stat_map, tail) ==
    LET slice(h_) ==
            LET bin_buff == [j \in DOMAIN stat_map |->
                                IF h_ > 0 THEN stat_map[j] >= h_ ELSE stat_map[j] <= h_]
                h_factor == h_ * h_
                l == LabelClustersBinary(bin_buff, None)
            IN [j \in DOMAIN stat_map |->
                   IF l.cmap[j] \in Range(l.cids)
                   THEN SqrtMilli[Cardinality({i \in DOMAIN stat_map : l.cmap[i] = l.cmap[j]})]
                        * h_factor
                   ELSE 0]
        hs == TfceHeights(stat_map, tail)
        slices == [h_ \in hs |-> slice(h_)]
    IN [j \in DOMAIN stat_map |-> SumOver([h_ \in hs |-> slices[h_][j]], hs)]

\* TFCEProcessor.max_stat(stat_map): self._tfce_map.max(self.max_axes)
TFCEProcessor_max_stat(stat_map, tail) == SetMax(Range(tfce(stat_map, tail)))

(* --------------------------- map reducers ----------------------------- *)
\* mutant: the largest signed value whatever the tail
StatMapProcessor_max_stat_Signed(stat_map, tail) == SetMax(Range(stat_map))

\* StatMapProcessor.max_stat(stat_map)
StatMapProcessor_max_stat(stat_map, tail) ==
    IF tail = 0 THEN SetMax({Abs(stat_map[j]) : j \in DOMAIN stat_map})
    ELSE IF tail > 0 THEN SetMax(Range(stat_map))
    ELSE -SetMin(Range(stat_map))

ClusterProcessor_max_stat(stat_map, threshold, tail, criteria) ==
    LET l == LabelClusters(stat_map, threshold, tail, criteria)
        clusters_v == NdimageSum(stat_map, l.cmap, l.cids)
    IN IF Len(l.cids) > 0
       THEN IF tail <= 0 THEN SetMax({Abs(clusters_v[i]) : i \in DOMAIN clusters_v})
            ELSE SetMax(Range(clusters_v))
       ELSE 0

\* get_map_processor(*map_args).max_stat(stat_map)
MaxStat(map_args, stat_map) ==
    IF map_args.kind = "cluster"
    THEN ClusterProcessor_max_stat(stat_map, map_args.threshold, map_args.tail,
                                   map_args.criteria)
    ELSE IF map_args.kind = "tfce"
    THEN TFCEProcessor_max_stat(stat_map, map_args.tail)
    ELSE StatMapProcessor_max_stat(stat_map, map_args.tail)

(* ----------------------- external collaborators ----------------------- *)
\* the statistic map of the uncropped data under permutation descriptor p
PermTable(p) ==
    [j \in 1..MapLen |->
        IF p = 1 THEN 2
        ELSE IF p = 2 THEN (IF j = 1 THEN -2 ELSE 0)
        ELSE 0]

\* permute_sign_flip(n, samples) / permute_order(n, samples): a finite
\* sequence of exactly `samples` permutation descriptors
PermSeqs(samples) == [1..samples -> Perms]

(* ------------------------------- state -------------------------------- *)
VARIABLES
    MULTIPROCESSING,    \* module global toggle (0 | 1)
    N_WORKERS,          \* module global: number of permutation workers
    design,             \* "single": ttest_1samp.__init__, "multi": anova.__init__
    cd,                 \* the _ClusterDist objects, one per effect
    opc,                \* position of the test constructor (the orchestrator)
    oi,                 \* loop index of the orchestrator's current loop
    perms,              \* the permutations the iterator yields, in order
    permutation_queue,  \* SimpleQueue of jobs (and None sentinels)
    dist_queue,         \* SimpleQueue of results
    wpc,                \* permutation worker processes
    wjob,               \* the job a worker holds
    dpc,                \* the distribution worker process
    di,                 \* the distribution worker's loop index i
    wlog,               \* history: every write to a null-distribution buffer
    takes,              \* history: how often each job was taken from the queue
    qres                \* the outcome of the last query on cd[1]

vars == <<MULTIPROCESSING, N_WORKERS, design, cd, opc, oi, perms,
          permutation_queue, dist_queue, wpc, wjob, dpc, di, wlog, takes, qres>>

pool_vars == <<permutation_queue, dist_queue, wpc, wjob, dpc, di, takes>>

\* the distributions the constructor builds, in order
dists == IF design = "single" THEN <<1>> ELSE [e \in Effects |-> e]

Workers == 1..N_WORKERS

NoJob == [k |-> 0, perm |-> None]

NoResult == [op |-> "", finalized |-> FALSE, has_original |-> FALSE,
             error |-> "", value |-> None]

(* ---------------------- _ClusterDist.__init__ ------------------------- *)
ClusterDist_init(samples, threshold, tail, criteria, force_permutation) ==
    [kind |-> IF IsNone(threshold) THEN "raw" ELSE "cluster",
     threshold |-> threshold,
     tail |-> tail,
     samples |-> samples,
     criteria |-> IF criteria = << >> THEN None ELSE Some(criteria),
     force_permutation |-> force_permutation,
     has_original |-> FALSE,
     do_permutation |-> FALSE,
     finalized |-> FALSE,
     n_clusters |-> 0,
     cids |-> None,
     original_cluster_map |-> None,
     original_param_map |-> None,
     dist |-> None,
     dist_array |-> None,
     probability_map |-> None,
     shape |-> MapLen,
     crop_for_permutation |-> FALSE,
     crop_idx |-> None,
     nfinalize |-> 0]

map_args(d) ==
    [kind |-> d.kind, tail |-> d.tail,
     threshold |-> IF IsNone(d.threshold) THEN 0 ELSE Val(d.threshold),
     criteria |-> d.criteria]

(* --------------- _ClusterDist.__init__: the arguments ----------------- *)
\* A Python string is a sequence of characters.
UpperCase == <<"A", "B", "C", "D", "E", "F", "G", "H", "I", "J", "K", "L", "M",
               "N", "O", "P", "Q", "R", "S", "T", "U", "V", "W", "X", "Y", "Z">>

LowerCase == <<"a", "b", "c", "d", "e", "f", "g", "h", "i", "j", "k", "l", "m",
               "n", "o", "p", "q", "r", "s", "t", "u", "v", "w", "x", "y", "z">>

Digits == {"0", "1", "2", "3", "4", "5", "6", "7", "8", "9"}

\* str.lower()
Lower(s) ==
    [i \in DOMAIN s |->
        IF \E c \in DOMAIN UpperCase : UpperCase[c] = s[i]
        THEN LowerCase[CHOOSE c \in DOMAIN UpperCase : UpperCase[c] = s[i]]
        ELSE s[i]]

\* the characters \w matches
WordChars == Range(UpperCase) \cup Range(LowerCase) \cup Digits \cup {"_"}

\* m = re.match('min(\w+)', k); m.group(1): None when there is no match
MinDim(k) ==
    IF Len(k) >= 4 /\ SubSeq(k, 1, 3) = <<"m", "i", "n">> /\ k[4] \in WordChars
    THEN LET stop == SetMax({n \in 4..Len(k) : \A i \in 4..n : k[i] \in WordChars})
         IN Some(SubSeq(k, 4, stop))
    ELSE None

\* a Python value handed over as the threshold argument
PyNone == [type |-> "NoneType", s |-> << >>, x |-> 0]
PyStr(s) == [type |-> "str", s |-> s, x |-> 0]
PyNum(x) == [type |-> "float", s |-> << >>, x |-> x]
PyObject == [type |-> "object", s |-> << >>, x |-> 0]

\* the dimensions of y after the case dimension: one time axis of MapLen
\* samples, time measured in samples
YDims == << <<"t", "i", "m", "e">> >>

\* mutant: a threshold of 0 is accepted, `threshold >= 0`
threshold_kind_NonNegative(threshold) ==
    IF threshold.type = "NoneType"
    THEN [error |-> "", kind |-> "raw", threshold |-> None]
    ELSE IF threshold.type = "str"
    THEN IF Lower(threshold.s) = <<"t", "f", "c", "e">>
         THEN [error |-> "", kind |-> "tfce", threshold |-> None]
         ELSE [error |-> "ValueError", kind |-> "", threshold |-> None]
    ELSE IF threshold.type # "float"
    THEN [error |-> "TypeError", kind |-> "", threshold |-> None]
    ELSE IF threshold.x >= 0
    THEN [error |-> "", kind |-> "cluster", threshold |-> Some(threshold.x)]
    ELSE [error |-> "ValueError", kind |-> "", threshold |-> None]

\* __init__: the threshold argument decides the kind
threshold_kind(threshold) ==
    IF threshold.type = "NoneType"
    THEN [error |-> "", kind |-> "raw", threshold |-> None]
    ELSE IF threshold.type = "str"
    THEN IF Lower(threshold.s) = <<"t", "f", "c", "e">>
         THEN [error |-> "", kind |-> "tfce", threshold |-> None]
         ELSE [error |-> "ValueError", kind |-> "", threshold |-> None]
    \* float(threshold) raises
    ELSE IF threshold.type # "float"
    THEN [error |-> "TypeError", kind |-> "", threshold |-> None]
    ELSE IF threshold.x > 0
    THEN [error |-> "", kind |-> "cluster", threshold |-> Some(threshold.x)]
    ELSE [error |-> "ValueError", kind |-> "", threshold |-> None]

\* __init__: one item (k, v) of the criteria dict; the value is the minimum
\* extent (every axis of the 1-D map but the criterion's own is collapsed)
criteria_item(item) ==
    LET k == item[1]
        v == item[2]
    IN IF k = <<"m", "i", "n", "t", "i", "m", "e">> THEN [error |-> "", v |-> v]
       ELSE IF IsNone(MinDim(k)) THEN [error |-> "ValueError", v |-> 0]
       ELSE IF Val(MinDim(k)) \notin Range(YDims)
       THEN [error |-> "DimensionMismatchError", v |-> 0]
       ELSE [error |-> "", v |-> v]

\* mutant: the `if kind != 'cluster': raise` test is missing
criteria__AnyKind(criteria, kind) ==
    LET items == [i \in DOMAIN criteria |-> criteria_item(criteria[i])]
        bad == {i \in DOMAIN items : items[i].error # ""}
    IN IF criteria = << >> THEN [error |-> "", value |-> None]
       ELSE IF bad # {} THEN [error |-> items[SetMin(bad)].error, value |-> None]
       ELSE [error |-> "", value |-> Some([i \in DOMAIN items |-> items[i].v])]

\* __init__: "prepare cluster minimum size criteria"; criteria is the dict as
\* the sequence of its items
criteria_(criteria, kind) ==
    LET items == [i \in DOMAIN criteria |-> criteria_item(criteria[i])]
        bad == {i \in DOMAIN items : items[i].error # ""}
    IN IF criteria = << >> THEN [error |-> "", value |-> None]
       ELSE IF bad # {} THEN [error |-> items[SetMin(bad)].error, value |-> None]
       ELSE IF kind # "cluster" THEN [error |-> "ValueError", value |-> None]
       ELSE [error |-> "", value |-> Some([i \in DOMAIN items |-> items[i].v])]

\* __init__: "prepare temporal cropping"; tstart and tstop are None or a
\* sample of the time axis (the slice start is inclusive, its stop exclusive)
with_window(d, tstart, tstop) ==
    IF IsNone(tstart) /\ IsNone(tstop) THEN d
    ELSE LET start == IF IsNone(tstart) THEN 1 ELSE Val(tstart)
             stop == IF IsNone(tstop) THEN MapLen ELSE Val(tstop) - 1
         IN [d EXCEPT !.crop_for_permutation = TRUE,
                      !.crop_idx = Some([start |-> start, stop |-> stop]),
                      !.shape = stop - start + 1]

\* mutant: the map is not cropped to the window
crop_Identity(d, im) == im

\* _ClusterDist._crop(im): im[self._crop_idx]
crop(d, im) ==
    IF d.crop_for_permutation
    THEN LET idx == Val(d.crop_idx)
         IN [j \in 1..(idx.stop - idx.start + 1) |-> im[j + idx.start - 1]]
    ELSE im

\* _ClusterDist(y, samples, threshold, tail, ..., tstart, tstop, criteria,
\* parc=None, force_permutation): the object, or the exception raised
ClusterDist_new(samples, threshold, tail, tstart, tstop, criteria, force_permutation) ==
    LET tk == threshold_kind(threshold)
        cr == criteria_(criteria, tk.kind)
    IN IF tk.error # "" THEN [error |-> tk.error, value |-> None]
       ELSE IF cr.error # "" THEN [error |-> cr.error, value |-> None]
       ELSE [error |-> "",
             value |-> Some([with_window(
                                ClusterDist_init(samples, tk.threshold, tail,
                                    IF IsNone(cr.value) THEN << >> ELSE Val(cr.value),
                                    force_permutation),
                                tstart, tstop)
                             EXCEPT !.kind = tk.kind])]

\* (tstart, tstop) of the tests: the whole epoch, or from the second sample
Windows == {<<None, None>>, <<Some(2), None>>}

\* arguments the constructor accepts: size criteria only with a threshold
ValidArgs(threshold, criteria) == criteria = << >> \/ ~IsNone(threshold)

Init ==
    /\ \/ MULTIPROCESSING = 1 /\ N_WORKERS \in 1..MaxWorkers
       \/ MULTIPROCESSING = 0 /\ N_WORKERS = MaxWorkers
    /\ design \in {"single", "multi"}
    /\ \E samples \in 0..MaxSamples, threshold \in Thresholds, tail \in Tails,
          criteria \in CriteriaArgs, force \in BOOLEAN, window \in Windows :
            /\ ValidArgs(threshold, criteria)
            /\ design = "multi" => tail = 1
            /\ cd = [e \in Effects |->
                        IF design = "single" /\ e # 1
                        THEN ClusterDist_init(0, None, 0, << >>, FALSE)
                        ELSE with_window(
                                ClusterDist_init(samples, threshold, tail, criteria, force),
                                window[1], window[2])]
    /\ opc = "init"
    /\ oi = 1
    /\ perms = << >>
    /\ permutation_queue = << >>
    /\ dist_queue = << >>
    /\ wpc = [w \in 1..MaxWorkers |-> "none"]
    /\ wjob = [w \in 1..MaxWorkers |-> NoJob]
    /\ dpc = "none"
    /\ di = 0
    /\ wlog = << >>
    /\ takes = [k \in 1..MaxSamples |-> 0]
    /\ qres = NoResult

\* test_func(y, stat_map_flat, perm) / test.map(y, perm): the statistic map
\* of effect e recomputed under permutation descriptor perm from y_perm, the
\* data cropped to the window
TestFunc(perm, e) == crop(cd[e], PermTable(((perm + e - 2) % NPerms) + 1))

(* ------------------- _ClusterDist.finalize / _create_dist ------------- *)
finalize(d) ==
    [d EXCEPT !.finalized = TRUE, !.nfinalize = @ + 1]

create_dist(d, mp) ==
    [d EXCEPT !.dist_array = IF mp = 1 THEN Some("RawArray") ELSE None,
              !.dist = Some([i \in 1..d.samples |-> 0])]

\* mutant: the original cluster map is stored as the labeler left it
clean_cluster_map_Keep(cmap, cids) == cmap

\* add_original, "clean original cluster map": cmap[~in1d(cmap, cids)] = 0
clean_cluster_map(cmap, cids) ==
    [j \in DOMAIN cmap |-> IF cmap[j] \in Range(cids) THEN cmap[j] ELSE 0]

\* mutant: the number of clusters is not consulted, `force or samples`
add_original_IgnoreClusters(d, stat_map, mp) ==
    IF d.has_original THEN d ELSE
    LET cropped == crop(d, stat_map)
        l == LabelClusters(cropped, Val(d.threshold), d.tail, d.criteria)
        clean == clean_cluster_map(l.cmap, l.cids)
        cmap == IF d.kind = "cluster" THEN clean
                ELSE IF d.kind = "tfce" THEN tfce(cropped, d.tail)
                ELSE cropped
        cids == IF d.kind = "cluster" THEN Some(l.cids) ELSE None
        n_clusters == IF d.kind = "cluster" THEN Len(l.cids) ELSE 1
        d1 == [d EXCEPT !.original_cluster_map = Some(cmap),
                        !.cids = cids,
                        !.n_clusters = n_clusters,
                        !.has_original = TRUE,
                        !.original_param_map = Some(cropped)]
    IN IF d.force_permutation \/ d.samples # 0
       THEN [create_dist(d1, mp) EXCEPT !.do_permutation = TRUE]
       ELSE finalize([d1 EXCEPT !.dist_array = None])

\* mutant: the `if self.has_original: raise` test is missing
add_original_NoGuard(d, stat_map, mp) ==
    LET cropped == crop(d, stat_map)
        l == LabelClusters(cropped, Val(d.threshold), d.tail, d.criteria)
        clean == clean_cluster_map(l.cmap, l.cids)
        cmap == IF d.kind = "cluster" THEN clean
                ELSE IF d.kind = "tfce" THEN tfce(cropped, d.tail)
                ELSE cropped
        cids == IF d.kind = "cluster" THEN Some(l.cids) ELSE None
        n_clusters == IF d.kind = "cluster" THEN Len(l.cids) ELSE 1
        d1 == [d EXCEPT !.original_cluster_map = Some(cmap),
                        !.cids = cids,
                        !.n_clusters = n_clusters,
                        !.has_original = TRUE,
                        !.original_param_map = Some(cropped)]
    IN IF d.force_permutation \/ (d.samples # 0 /\ n_clusters # 0)
       THEN [create_dist(d1, mp) EXCEPT !.do_permutation = TRUE]
       ELSE finalize([d1 EXCEPT !.dist_array = None])

(* --------------------- _ClusterDist.add_original ---------------------- *)
\* a second call raises RuntimeError before anything is assigned: the object
\* is returned as it was (add_original_error tells whether the call raised)
add_original(d, stat_map, mp) ==
    IF d.has_original THEN d ELSE
    LET cropped == crop(d, stat_map)
        l == LabelClusters(cropped, Val(d.threshold), d.tail, d.criteria)
        clean == clean_cluster_map(l.cmap, l.cids)
        cmap == IF d.kind = "cluster" THEN clean
                ELSE IF d.kind = "tfce" THEN tfce(cropped, d.tail)
                ELSE cropped
        cids == IF d.kind = "cluster" THEN Some(l.cids) ELSE None
        \* True counts as 1
        n_clusters == IF d.kind = "cluster" THEN Len(l.cids) ELSE 1
        d1 == [d EXCEPT !.original_cluster_map = Some(cmap),
                        !.cids = cids,
                        !.n_clusters = n_clusters,
                        !.has_original = TRUE,
                        !.original_param_map = Some(cropped)]
    IN IF d.force_permutation \/ (d.samples # 0 /\ n_clusters # 0)
       THEN [create_dist(d1, mp) EXCEPT !.do_permutation = TRUE]
       ELSE finalize([d1 EXCEPT !.dist_array = None])

add_original_error(d) == IF d.has_original THEN "RuntimeError" ELSE ""

\* the constructor adds the original map of the next effect
AddOriginal ==
    /\ opc = "init"
    /\ oi <= Len(dists)
    /\ ~cd[dists[oi]].has_original
    /\ \E stat_map \in (IF design = "single" THEN Maps ELSE FMaps) :
          cd' = [cd EXCEPT ![dists[oi]] = add_original(@, stat_map, MULTIPROCESSING)]
    /\ oi' = IF oi = Len(dists) THEN 1 ELSE oi + 1
    /\ opc' = IF oi = Len(dists) THEN "added" ELSE "init"
    /\ qres' = NoResult
    /\ UNCHANGED <<MULTIPROCESSING, N_WORKERS, design, perms, wlog>>
    /\ UNCHANGED pool_vars

\* `if cdist.do_permutation:` is false: the constructor runs no permutation
ConstructorReturn ==
    /\ opc = "added"
    /\ \A i \in DOMAIN dists : ~cd[dists[i]].do_permutation
    /\ opc' = "done"
    /\ qres' = NoResult
    /\ UNCHANGED <<MULTIPROCESSING, N_WORKERS, design, cd, oi, perms, wlog>>
    /\ UNCHANGED pool_vars

\* a caller calls add_original on a distribution that has its original map
AddOriginalAgain ==
    /\ opc \in {"added", "done"}
    /\ \E i \in DOMAIN dists, stat_map \in Maps :
          LET d == cd[dists[i]]
          IN /\ d.has_original
             /\ cd' = [cd EXCEPT ![dists[i]] = add_original(@, stat_map, MULTIPROCESSING)]
             /\ qres' = [op |-> "add_original", finalized |-> d.finalized,
                         has_original |-> d.has_original,
                         error |-> add_original_error(d), value |-> None]
    /\ UNCHANGED <<MULTIPROCESSING, N_WORKERS, design, opc, oi, perms, wlog>>
    /\ UNCHANGED pool_vars

(* ---------------------------- the pool -------------------------------- *)
\* the list setup_workers returns: the permutation workers, then the
\* distribution worker (written 0)
WorkersList == [i \in 1..(N_WORKERS + 1) |-> IF i <= N_WORKERS THEN i ELSE 0]

\* mutant: one sentinel too few, range(len(workers) - 2)
NumSentinels_OneShort == Len(WorkersList) - 2

\* range(len(workers) - 1): the number of None sentinels put on the queue
NumSentinels == Len(WorkersList) - 1

\* Process.join() returns once the process has ended, normally or not
ProcessEnded(p) ==
    IF p = 0 THEN dpc \in {"exited", "failed"} ELSE wpc[p] \in {"exited", "failed"}

\* setup_workers / setup_workers_me: start N_WORKERS permutation workers and
\* one distribution worker (which loops `samples` times)
setup_workers(samples) ==
    /\ permutation_queue' = << >>
    /\ dist_queue' = << >>
    /\ wpc' = [w \in DOMAIN wpc |-> IF w \in Workers THEN "get" ELSE "none"]
    /\ wjob' = [w \in DOMAIN wjob |-> NoJob]
    /\ dpc' = IF samples = 0 THEN "exited" ELSE "run"
    /\ di' = 0
    /\ takes' = takes

\* run_permutation is entered: the pooled or the single-process branch
RunPermutation ==
    /\ opc = "added"
    /\ design = "single"
    /\ cd[1].do_permutation
    /\ \E ps \in PermSeqs(cd[1].samples) :
          /\ perms' = ps
          /\ IF MULTIPROCESSING = 1
             THEN /\ setup_workers(cd[1].samples)
                  /\ opc' = IF Len(ps) = 0 THEN "sentinel" ELSE "put"
             ELSE /\ UNCHANGED pool_vars
                  /\ opc' = IF Len(ps) = 0 THEN "finalize" ELSE "loop"
    /\ oi' = 1
    /\ qres' = NoResult
    /\ UNCHANGED <<MULTIPROCESSING, N_WORKERS, design, cd, wlog>>

\* run_permutation_me is entered
RunPermutationMe ==
    /\ opc = "added"
    /\ design = "multi"
    /\ \E i \in DOMAIN dists : cd[dists[i]].do_permutation
    /\ \E ps \in PermSeqs(cd[1].samples) :
          /\ perms' = ps
          /\ IF MULTIPROCESSING = 1
             THEN /\ setup_workers(cd[dists[1]].samples)
                  /\ opc' = IF Len(ps) = 0 THEN "sentinel" ELSE "put"
             ELSE /\ UNCHANGED pool_vars
                  /\ opc' = IF Len(ps) = 0 THEN "finalize" ELSE "loop"
    /\ oi' = 1
    /\ qres' = NoResult
    /\ UNCHANGED <<MULTIPROCESSING, N_WORKERS, design, cd, wlog>>

\* for perm in iterator: out_queue.put(perm)
PutPerm ==
    /\ opc = "put"
    /\ permutation_queue' = Append(permutation_queue,
                                   [k |-> oi, perm |-> Some(perms[oi])])
    /\ oi' = IF oi = Len(perms) THEN 1 ELSE oi + 1
    /\ opc' = IF oi = Len(perms) THEN "sentinel" ELSE "put"
    /\ UNCHANGED <<MULTIPROCESSING, N_WORKERS, design, cd, perms, dist_queue,
                   wpc, wjob, dpc, di, wlog, takes, qres>>

\* for _ in range(len(workers) - 1): out_queue.put(None)
PutSentinel ==
    /\ opc = "sentinel"
    /\ IF oi <= NumSentinels
       THEN /\ permutation_queue' = Append(permutation_queue, NoJob)
            /\ oi' = IF oi = NumSentinels THEN 1 ELSE oi + 1
            /\ opc' = IF oi = NumSentinels THEN "join" ELSE "sentinel"
       ELSE /\ permutation_queue' = permutation_queue
            /\ oi' = 1
            /\ opc' = "join"
    /\ UNCHANGED <<MULTIPROCESSING, N_WORKERS, design, cd, perms, dist_queue,
                   wpc, wjob, dpc, di, wlog, takes, qres>>

\* mutant: the distribution worker is not joined, workers[:-1]
JoinWorker_SkipWriter ==
    /\ opc = "join"
    /\ ProcessEnded(WorkersList[oi])
    /\ oi' = IF oi = Len(WorkersList) - 1 THEN 1 ELSE oi + 1
    /\ opc' = IF oi = Len(WorkersList) - 1 THEN "finalize" ELSE "join"
    /\ UNCHANGED <<MULTIPROCESSING, N_WORKERS, design, cd, perms, wlog, qres>>
    /\ UNCHANGED pool_vars

\* for w in workers: w.join()
JoinWorker ==
    /\ opc = "join"
    /\ ProcessEnded(WorkersList[oi])
    /\ oi' = IF oi = Len(WorkersList) THEN 1 ELSE oi + 1
    /\ opc' = IF oi = Len(WorkersList) THEN "finalize" ELSE "join"
    /\ UNCHANGED <<MULTIPROCESSING, N_WORKERS, design, cd, perms, wlog, qres>>
    /\ UNCHANGED pool_vars

\* permutation_worker / permutation_worker_me: perm = in_queue.get()
WorkerGet(w) ==
    /\ wpc[w] = "get"
    /\ permutation_queue # << >>
    /\ LET job == Head(permutation_queue)
       IN /\ permutation_queue' = Tail(permutation_queue)
          /\ IF IsNone(job.perm)
             THEN /\ wpc' = [wpc EXCEPT ![w] = "exited"]
                  /\ UNCHANGED <<wjob, takes>>
             ELSE /\ wpc' = [wpc EXCEPT ![w] = "busy"]
                  /\ wjob' = [wjob EXCEPT ![w] = job]
                  /\ takes' = [takes EXCEPT ![job.k] = @ + 1]
    /\ UNCHANGED <<MULTIPROCESSING, N_WORKERS, design, cd, opc, oi, perms,
                   dist_queue, dpc, di, wlog, qres>>

\* mutant: the worker reduces every map with the raw-extremum reducer
PermutationWorker_RawStat(w) ==
    /\ design = "single"
    /\ wpc[w] = "busy"
    /\ LET max_v == StatMapProcessor_max_stat(TestFunc(Val(wjob[w].perm), 1), cd[1].tail)
       IN dist_queue' = Append(dist_queue, [k |-> wjob[w].k, v |-> <<max_v>>])
    /\ wpc' = [wpc EXCEPT ![w] = "get"]
    /\ wjob' = [wjob EXCEPT ![w] = NoJob]
    /\ UNCHANGED <<MULTIPROCESSING, N_WORKERS, design, cd, opc, oi, perms,
                   permutation_queue, dpc, di, wlog, takes, qres>>

\* mutant: the worker also stores its result in the shared buffer itself
PermutationWorker_WritesBuffer(w) ==
    /\ design = "single"
    /\ wpc[w] = "busy"
    /\ LET max_v == MaxStat(map_args(cd[1]), TestFunc(Val(wjob[w].perm), 1))
       IN /\ dist_queue' = Append(dist_queue, [k |-> wjob[w].k, v |-> <<max_v>>])
          /\ cd' = [cd EXCEPT ![1].dist = Some([Val(@) EXCEPT ![wjob[w].k] = max_v])]
    /\ wpc' = [wpc EXCEPT ![w] = "get"]
    /\ wjob' = [wjob EXCEPT ![w] = NoJob]
    /\ UNCHANGED <<MULTIPROCESSING, N_WORKERS, design, opc, oi, perms,
                   permutation_queue, dpc, di, wlog, takes, qres>>

\* permutation_worker: test_func, max_stat, out_queue.put(max_v)
PermutationWorker(w) ==
    /\ design = "single"
    /\ wpc[w] = "busy"
    /\ LET max_v == MaxStat(map_args(cd[1]), TestFunc(Val(wjob[w].perm), 1))
       IN dist_queue' = Append(dist_queue, [k |-> wjob[w].k, v |-> <<max_v>>])
    /\ wpc' = [wpc EXCEPT ![w] = "get"]
    /\ wjob' = [wjob EXCEPT ![w] = NoJob]
    /\ UNCHANGED <<MULTIPROCESSING, N_WORKERS, design, cd, opc, oi, perms,
                   permutation_queue, dpc, di, wlog, takes, qres>>

\* the threshold run_permutation_me hands over for effect e
me_args(e) ==
    IF cd[dists[1]].kind = "cluster"
    THEN [map_args(cd[dists[1]]) EXCEPT !.threshold = Val(cd[e].threshold)]
    ELSE map_args(cd[dists[1]])

\* permutation_worker_me: test.map, one max_stat per effect, out_queue.put
PermutationWorkerMe(w) ==
    /\ design = "multi"
    /\ wpc[w] = "busy"
    /\ LET max_v == [i \in DOMAIN dists |->
                        MaxStat(me_args(dists[i]),
                                TestFunc(Val(wjob[w].perm), dists[i]))]
       IN dist_queue' = Append(dist_queue, [k |-> wjob[w].k, v |-> max_v])
    /\ wpc' = [wpc EXCEPT ![w] = "get"]
    /\ wjob' = [wjob EXCEPT ![w] = NoJob]
    /\ UNCHANGED <<MULTIPROCESSING, N_WORKERS, design, cd, opc, oi, perms,
                   permutation_queue, dpc, di, wlog, takes, qres>>

\* mutant: every result is stored in the first row, dist[0] = in_queue.get()
DistributionWorker_FirstRow ==
    /\ design = "single"
    /\ dpc = "run"
    /\ dist_queue # << >>
    /\ LET res == Head(dist_queue)
           row == 1
       IN /\ cd' = [cd EXCEPT ![1].dist = Some([Val(@) EXCEPT ![row] = res.v[1]])]
          /\ wlog' = Append(wlog, [proc |-> "dist", e |-> 1, row |-> row,
                                   k |-> res.k, finalized |-> cd[1].finalized])
    /\ dist_queue' = Tail(dist_queue)
    /\ di' = di + 1
    /\ dpc' = IF di + 1 = cd[1].samples THEN "exited" ELSE "run"
    /\ UNCHANGED <<MULTIPROCESSING, N_WORKERS, design, opc, oi, perms,
                   permutation_queue, wpc, wjob, takes, qres>>

\* distribution_worker: dist[i] = in_queue.get(), for i in range(samples)
DistributionWorker ==
    /\ design = "single"
    /\ dpc = "run"
    /\ ~IsNone(cd[1].dist_array)
    /\ dist_queue # << >>
    /\ LET res == Head(dist_queue)
           row == di + 1
       IN /\ cd' = [cd EXCEPT ![1].dist = Some([Val(@) EXCEPT ![row] = res.v[1]])]
          /\ wlog' = Append(wlog, [proc |-> "dist", e |-> 1, row |-> row,
                                   k |-> res.k, finalized |-> cd[1].finalized])
    /\ dist_queue' = Tail(dist_queue)
    /\ di' = di + 1
    /\ dpc' = IF di + 1 = cd[1].samples THEN "exited" ELSE "run"
    /\ UNCHANGED <<MULTIPROCESSING, N_WORKERS, design, opc, oi, perms,
                   permutation_queue, wpc, wjob, takes, qres>>

\* mutant: the second effect's rows are filled from the last row down
DistributionWorkerMe_Reversed ==
    /\ design = "multi"
    /\ dpc = "run"
    /\ dist_queue # << >>
    /\ LET res == Head(dist_queue)
           row(e) == IF e = 1 THEN di + 1 ELSE cd[dists[1]].samples - di
       IN /\ cd' = [e \in Effects |->
                      IF ~IsNone(cd[e].dist_array)
                      THEN [cd[e] EXCEPT !.dist = Some([Val(@) EXCEPT ![row(e)] = res.v[e]])]
                      ELSE cd[e]]
          /\ wlog' = wlog \o SelectSeq(
                        [i \in DOMAIN dists |->
                            [proc |-> "dist", e |-> dists[i], row |-> row(dists[i]),
                             k |-> res.k, finalized |-> cd[dists[i]].finalized]],
                        LAMBDA x : ~IsNone(cd[x.e].dist_array))
    /\ dist_queue' = Tail(dist_queue)
    /\ di' = di + 1
    /\ dpc' = IF di + 1 = cd[dists[1]].samples THEN "exited" ELSE "run"
    /\ UNCHANGED <<MULTIPROCESSING, N_WORKERS, design, opc, oi, perms,
                   permutation_queue, wpc, wjob, takes, qres>>

\* distribution_worker_me: for dist, v in zip(dists, in_queue.get())
DistributionWorkerMe ==
    /\ design = "multi"
    /\ dpc = "run"
    /\ dist_queue # << >>
    /\ LET res == Head(dist_queue)
           row == di + 1
       IN /\ cd' = [e \in Effects |->
                      IF ~IsNone(cd[e].dist_array)
                      THEN [cd[e] EXCEPT !.dist = Some([Val(@) EXCEPT ![row] = res.v[e]])]
                      ELSE cd[e]]
          /\ wlog' = wlog \o SelectSeq(
                        [i \in DOMAIN dists |->
                            [proc |-> "dist", e |-> dists[i], row |-> row,
                             k |-> res.k, finalized |-> cd[dists[i]].finalized]],
                        LAMBDA x : ~IsNone(cd[x.e].dist_array))
    /\ dist_queue' = Tail(dist_queue)
    /\ di' = di + 1
    /\ dpc' = IF di + 1 = cd[dists[1]].samples THEN "exited" ELSE "run"
    /\ UNCHANGED <<MULTIPROCESSING, N_WORKERS, design, opc, oi, perms,
                   permutation_queue, wpc, wjob, takes, qres>>

(* ----------------------- single-process branch ------------------------ *)
\* run_permutation, else branch: dist.dist[i] = map_processor.max_stat(...)
SequentialStep ==
    /\ design = "single"
    /\ opc = "loop"
    /\ LET max_v == MaxStat(map_args(cd[1]), TestFunc(perms[oi], 1))
       IN /\ cd' = [cd EXCEPT ![1].dist = Some([Val(@) EXCEPT ![oi] = max_v])]
          /\ wlog' = Append(wlog, [proc |-> "main", e |-> 1, row |-> oi,
                                   k |-> oi, finalized |-> cd[1].finalized])
    /\ oi' = IF oi = Len(perms) THEN 1 ELSE oi + 1
    /\ opc' = IF oi = Len(perms) THEN "finalize" ELSE "loop"
    /\ UNCHANGED <<MULTIPROCESSING, N_WORKERS, design, perms, qres>>
    /\ UNCHANGED pool_vars

\* run_permutation_me, else branch: every effect with do_permutation
SequentialStepMe ==
    /\ design = "multi"
    /\ opc = "loop"
    /\ cd' = [e \in Effects |->
                IF cd[e].do_permutation
                THEN [cd[e] EXCEPT !.dist =
                        Some([Val(@) EXCEPT ![oi] =
                                MaxStat(me_args(e), TestFunc(perms[oi], e))])]
                ELSE cd[e]]
    /\ wlog' = wlog \o SelectSeq(
                  [i \in DOMAIN dists |->
                      [proc |-> "main", e |-> dists[i], row |-> oi, k |-> oi,
                       finalized |-> cd[dists[i]].finalized]],
                  LAMBDA x : cd[x.e].do_permutation)
    /\ oi' = IF oi = Len(perms) THEN 1 ELSE oi + 1
    /\ opc' = IF oi = Len(perms) THEN "finalize" ELSE "loop"
    /\ UNCHANGED <<MULTIPROCESSING, N_WORKERS, design, perms, qres>>
    /\ UNCHANGED pool_vars

\* run_permutation: dist.finalize()
RunFinalize ==
    /\ design = "single"
    /\ opc = "finalize"
    /\ cd' = [cd EXCEPT ![1] = finalize(@)]
    /\ opc' = "done"
    /\ UNCHANGED <<MULTIPROCESSING, N_WORKERS, design, oi, perms, wlog, qres>>
    /\ UNCHANGED pool_vars

\* mutant: every distribution is finalized, `if d.do_permutation` dropped
RunFinalizeMe_All ==
    /\ design = "multi"
    /\ opc = "finalize"
    /\ cd' = [e \in Effects |-> finalize(cd[e])]
    /\ opc' = "done"
    /\ UNCHANGED <<MULTIPROCESSING, N_WORKERS, design, oi, perms, wlog, qres>>
    /\ UNCHANGED pool_vars

\* run_permutation_me: for d in dists: if d.do_permutation: d.finalize()
RunFinalizeMe ==
    /\ design = "multi"
    /\ opc = "finalize"
    /\ cd' = [e \in Effects |-> IF cd[e].do_permutation THEN finalize(cd[e]) ELSE cd[e]]
    /\ opc' = "done"
    /\ UNCHANGED <<MULTIPROCESSING, N_WORKERS, design, oi, perms, wlog, qres>>
    /\ UNCHANGED pool_vars

(* ------------------------------ queries ------------------------------- *)
Ok(v) == [error |-> "", value |-> Some(v)]
Raise(err) == [error |-> err, value |-> None]

\* mutant: the observed statistic is counted too, n_larger + 1
NLarger_PlusOne(dist, v) == Cardinality({i \in DOMAIN dist : dist[i] > v}) + 1

\* mutant: rows equal to the observed statistic are counted, dist >= v
NLarger_GreaterEqual(dist, v) == Cardinality({i \in DOMAIN dist : dist[i] >= v})

\* number of rows of the null distribution that are larger than v
NLarger(dist, v) == Cardinality({i \in DOMAIN dist : dist[i] > v})

\* mutant: the cluster-kind map starts from np.zeros instead of np.ones
compute_probability_map_Zeros(d) ==
    IF d.samples = 0 THEN Raise("RuntimeError")
    ELSE IF d.kind = "cluster"
    THEN IF ~d.has_original THEN Raise("AttributeError")
         ELSE IF d.n_clusters # 0 /\ IsNone(d.dist) THEN Raise("AttributeError")
         ELSE LET cids == Val(d.cids)
                  cluster_map == Val(d.original_cluster_map)
                  param_map == Val(d.original_param_map)
                  cluster_v == NdimageSum(param_map, cluster_map, cids)
                  cluster_p == [i \in DOMAIN cids |->
                                   NLarger(Val(d.dist), Abs(cluster_v[i]))]
              IN Ok([j \in 1..d.shape |->
                        IF d.n_clusters # 0 /\ \E i \in DOMAIN cids : cluster_map[j] = cids[i]
                        THEN cluster_p[CHOOSE i \in DOMAIN cids : cluster_map[j] = cids[i]]
                        ELSE 0])
    ELSE IF ~d.finalized THEN Raise("AttributeError")
         ELSE IF IsNone(d.dist) THEN Raise("AttributeError")
         ELSE LET parameter_map == Val(d.original_param_map)
                  stat_map == [j \in DOMAIN parameter_map |->
                                  IF d.kind = "tfce" THEN Val(d.original_cluster_map)[j]
                                  ELSE IF d.tail = 0 THEN Abs(parameter_map[j])
                                  ELSE IF d.tail < 0 THEN -parameter_map[j]
                                  ELSE parameter_map[j]]
              IN Ok([j \in DOMAIN stat_map |-> NLarger(Val(d.dist), stat_map[j])])

\* _ClusterDist.compute_probability_map(): p-values as numerators over samples
compute_probability_map(d) ==
    IF d.samples = 0 THEN Raise("RuntimeError")
    ELSE IF d.kind = "cluster"
    THEN IF ~d.has_original THEN Raise("AttributeError")
         ELSE IF d.n_clusters # 0 /\ IsNone(d.dist) THEN Raise("AttributeError")
         ELSE LET cids == Val(d.cids)
                  cluster_map == Val(d.original_cluster_map)
                  param_map == Val(d.original_param_map)
                  cluster_v == NdimageSum(param_map, cluster_map, cids)
                  cluster_p == [i \in DOMAIN cids |->
                                   NLarger(Val(d.dist), Abs(cluster_v[i]))]
              IN Ok([j \in 1..d.shape |->
                        IF d.n_clusters # 0 /\ \E i \in DOMAIN cids : cluster_map[j] = cids[i]
                        THEN cluster_p[CHOOSE i \in DOMAIN cids : cluster_map[j] = cids[i]]
                        ELSE d.samples])
    ELSE IF ~d.finalized THEN Raise("AttributeError")
         ELSE IF IsNone(d.dist) THEN Raise("AttributeError")
         ELSE LET parameter_map == Val(d.original_param_map)
                  stat_map == [j \in DOMAIN parameter_map |->
                                  IF d.kind = "tfce" THEN Val(d.original_cluster_map)[j]
                                  ELSE IF d.tail = 0 THEN Abs(parameter_map[j])
                                  ELSE IF d.tail < 0 THEN -parameter_map[j]
                                  ELSE parameter_map[j]]
              IN Ok([j \in DOMAIN stat_map |-> NLarger(Val(d.dist), stat_map[j])])

\* the LazyProperty _ClusterDist.probability_map: computed on first access
probability_map(d) ==
    IF ~IsNone(d.probability_map) THEN [error |-> "", value |-> d.probability_map]
    ELSE IF d.samples # 0 THEN compute_probability_map(d)
    ELSE Ok(None)

\* the pmin arguments of the queries: None, 0.05, 0.5 and 1, as <<numerator,
\* denominator>>
Pmins == {None, Some(<<1, 20>>), Some(<<1, 2>>), Some(<<1, 1>>)}

\* np.less_equal(p, pmin) for p = n / samples
LessEqualPmin(n, samples, pmin) == n * pmin[2] <= pmin[1] * samples

\* mutant: the mask is np.less(probability_map.x, pmin)
masked_parameter_map_Less(d, pmin_arg) ==
    LET pmin == IF IsNone(pmin_arg) THEN <<1, 1>> ELSE Val(pmin_arg)
    IN IF ~d.finalized THEN Raise("AttributeError")
       ELSE LET param_map == Val(d.original_param_map)
            IN IF pmin[1] = pmin[2]
               THEN IF d.kind # "cluster" THEN Raise("ValueError")
                    ELSE Ok([j \in DOMAIN param_map |->
                                IF Val(d.original_cluster_map)[j] # 0
                                THEN param_map[j] ELSE 0])
               ELSE LET pm == compute_probability_map(d)
                    IN IF pm.error # "" THEN pm
                       ELSE Ok([j \in DOMAIN param_map |->
                                   IF Val(pm.value)[j] * pmin[2] < pmin[1] * d.samples
                                   THEN param_map[j] ELSE 0])

\* _ClusterDist.masked_parameter_map(pmin)
masked_parameter_map(d, pmin_arg) ==
    LET pmin == IF IsNone(pmin_arg) THEN <<1, 1>> ELSE Val(pmin_arg)
    IN IF ~d.finalized THEN Raise("AttributeError")
       ELSE LET param_map == Val(d.original_param_map)
            IN IF pmin[1] = pmin[2]
               THEN IF d.kind # "cluster" THEN Raise("ValueError")
                    ELSE Ok([j \in DOMAIN param_map |->
                                IF Val(d.original_cluster_map)[j] # 0
                                THEN param_map[j] ELSE 0])
               ELSE LET pm == compute_probability_map(d)
                    IN IF pm.error # "" THEN pm
                       ELSE Ok([j \in DOMAIN param_map |->
                                   IF LessEqualPmin(Val(pm.value)[j], d.samples, pmin)
                                   THEN param_map[j] ELSE 0])

\* _ClusterDist.cluster(cluster_id)
cluster(d, cluster_id) ==
    IF ~d.has_original THEN Raise("AttributeError")
    ELSE IF IsNone(d.cids) THEN Raise("TypeError")
    ELSE IF cluster_id \notin Range(Val(d.cids)) THEN Raise("ValueError")
    ELSE IF ~d.finalized THEN Raise("AttributeError")
    ELSE LET param_map == Val(d.original_param_map)
             cluster_map == Val(d.original_cluster_map)
         IN Ok([j \in DOMAIN param_map |->
                   IF cluster_map[j] = cluster_id THEN param_map[j] ELSE 0])

\* _ClusterDist.clusters(pmin=None): the cluster table (id, v, p)
clusters(d) ==
    IF ~d.finalized THEN Raise("AttributeError")
    ELSE IF d.kind = "cluster"
    THEN LET cids == Val(d.cids)
             cluster_v == NdimageSum(Val(d.original_param_map),
                                     Val(d.original_cluster_map), cids)
         IN Ok([i \in DOMAIN cids |->
                   [id |-> cids[i], v |-> cluster_v[i],
                    p |-> IF d.samples # 0
                          THEN Some(NLarger(Val(d.dist), Abs(cluster_v[i])))
                          ELSE None]])
    ELSE LET pm == compute_probability_map(d)
         IN IF pm.error # "" THEN pm
            ELSE LET p_map == Val(pm.value)
                     bin_map == [j \in DOMAIN p_map |-> 20 * p_map[j] <= d.samples]
                     l == LabelClustersBinary(bin_map, None)
                 IN Ok([i \in DOMAIN l.cids |->
                          [id |-> l.cids[i],
                           p |-> Some(SetMin({p_map[j] : j \in
                                        {x \in DOMAIN p_map : l.cmap[x] = l.cids[i]}}))]])

\* _ClusterDist.find_peaks(): the outcome only, the peak table is not computed
find_peaks(d) ==
    IF d.kind = "cluster" THEN Raise("RuntimeError")
    ELSE IF ~d.has_original THEN Raise("AttributeError")
    ELSE LET pm == probability_map(d)
         IN IF pm.error # "" THEN pm
            ELSE IF IsNone(pm.value[1]) THEN Raise("AttributeError")
            ELSE Ok("peaks")

\* mutant: 'dist' is missing from the pickled attributes
getstate_WithoutDist(d) ==
    IF ~d.finalized THEN Raise("RuntimeError")
    ELSE Ok([kind |-> d.kind, threshold |-> d.threshold, tail |-> d.tail,
             criteria |-> d.criteria, samples |-> d.samples, shape |-> d.shape,
             n_clusters |-> d.n_clusters, dist |-> None,
             original_param_map |-> d.original_param_map,
             original_cluster_map |-> d.original_cluster_map,
             cids |-> d.cids])

\* _ClusterDist.__getstate__(): the dict of the pickled attributes
getstate(d) ==
    IF ~d.finalized THEN Raise("RuntimeError")
    ELSE Ok([kind |-> d.kind, threshold |-> d.threshold, tail |-> d.tail,
             criteria |-> d.criteria, samples |-> d.samples, shape |-> d.shape,
             n_clusters |-> d.n_clusters, dist |-> d.dist,
             original_param_map |-> d.original_param_map,
             original_cluster_map |-> d.original_cluster_map,
             cids |-> d.cids])

\* _ClusterDist.__setstate__(state) on a new object: the attributes of the
\* dict are set, has_original is set and finalize() runs; the object has no
\* other attribute (no dist_array, do_permutation, force_permutation or crop
\* index, and no cached probability_map)
setstate(state) ==
    finalize([kind |-> state.kind, threshold |-> state.threshold, tail |-> state.tail,
              criteria |-> state.criteria, samples |-> state.samples,
              shape |-> state.shape, n_clusters |-> state.n_clusters,
              dist |-> state.dist,
              original_param_map |-> state.original_param_map,
              original_cluster_map |-> state.original_cluster_map,
              cids |-> state.cids,
              has_original |-> TRUE,
              probability_map |-> None,
              finalized |-> FALSE,
              nfinalize |-> 0])

\* pickle.loads(pickle.dumps(d))
pickle_roundtrip(d) ==
    LET state == getstate(d)
    IN IF state.error # "" THEN state ELSE Ok(setstate(Val(state.value)))

QueryOps == {"clusters", "find_peaks", "compute_probability_map",
             "masked_parameter_map", "cluster", "probability_map", "pickle"}

Answer(op, d, pmin) ==
    IF op = "clusters" THEN clusters(d)
    ELSE IF op = "find_peaks" THEN find_peaks(d)
    ELSE IF op = "compute_probability_map" THEN compute_probability_map(d)
    ELSE IF op = "masked_parameter_map" THEN masked_parameter_map(d, pmin)
    ELSE IF op = "cluster" THEN cluster(d, 1)
    ELSE IF op = "pickle" THEN pickle_roundtrip(d)
    ELSE probability_map(d)

\* the pmin argument the caller passes to op (0.05, the default of
\* _Result.masked_parameter_map, where op takes none)
QueryPmins(op) == IF op = "masked_parameter_map" THEN Pmins ELSE {Some(<<1, 20>>)}

\* a caller queries the first distribution between two steps of the constructor
Query ==
    /\ opc \in {"init", "added", "done"}
    /\ \E op \in QueryOps : \E pmin \in QueryPmins(op) :
          LET d == cd[1]
              a == Answer(op, d, pmin)
              pm == probability_map(d)
          IN /\ qres' = [op |-> op, finalized |-> d.finalized,
                         has_original |-> d.has_original,
                         error |-> a.error, value |-> a.value, pmin |-> pmin]
             /\ cd' = IF /\ op = "probability_map" \/ (op = "find_peaks" /\ d.kind # "cluster"
                                                        /\ d.has_original)
                         /\ pm.error = ""
                      THEN [cd EXCEPT ![1].probability_map = pm.value]
                      ELSE cd
    /\ UNCHANGED <<MULTIPROCESSING, N_WORKERS, design, opc, oi, perms, wlog>>
    /\ UNCHANGED pool_vars

(* ------------------------- a failing recompute ------------------------ *)
\* test_func or max_stat raises in a permutation worker: the process ends
\* with the exception, nothing is put on the result queue
WorkerRaise(w) ==
    /\ wpc[w] = "busy"
    /\ wpc' = [wpc EXCEPT ![w] = "failed"]
    /\ wjob' = [wjob EXCEPT ![w] = NoJob]
    /\ UNCHANGED <<MULTIPROCESSING, N_WORKERS, design, cd, opc, oi, perms,
                   permutation_queue, dist_queue, dpc, di, wlog, takes, qres>>

\* test_func or max_stat raises in the single-process loop: the exception
\* leaves run_permutation and the constructor
SequentialRaise ==
    /\ opc = "loop"
    /\ opc' = "raised"
    /\ UNCHANGED <<MULTIPROCESSING, N_WORKERS, design, cd, oi, perms, wlog, qres>>
    /\ UNCHANGED pool_vars

(* --------------------------- specifications --------------------------- *)
Orchestrator ==
    \/ AddOriginal
    \/ ConstructorReturn
    \/ RunPermutation
    \/ RunPermutationMe
    \/ PutPerm
    \/ PutSentinel
    \/ JoinWorker
    \/ SequentialStep
    \/ SequentialStepMe
    \/ RunFinalize
    \/ RunFinalizeMe

Worker(w) ==
    \/ WorkerGet(w)
    \/ PermutationWorker(w)
    \/ PermutationWorkerMe(w)

Writer ==
    \/ DistributionWorker
    \/ DistributionWorkerMe

Next ==
    \/ Orchestrator
    \/ \E w \in 1..MaxWorkers : Worker(w)
    \/ Writer
    \/ Query
    \/ AddOriginalAgain

Spec == Init /\ [][Next]_vars

\* the same program with a recompute function that may raise
NextFail ==
    \/ Next
    \/ \E w \in 1..MaxWorkers : WorkerRaise(w)
    \/ SequentialRaise

SpecFail == Init /\ [][NextFail]_vars

\* one pooled run of run_permutation, from the state add_original leaves
\* behind (force_permutation set, so that every permutation count runs)
PoolInit ==
    /\ MULTIPROCESSING = 1
    /\ N_WORKERS \in 1..MaxWorkers
    /\ design = "single"
    /\ \E samples \in 0..MaxSamples, threshold \in Thresholds :
          cd = [e \in Effects |->
                  IF e # 1 THEN ClusterDist_init(0, None, 0, << >>, FALSE)
                  ELSE add_original(
                          ClusterDist_init(samples, threshold, 0, << >>, TRUE),
                          PermTable(1), 1)]
    /\ opc = "added"
    /\ oi = 1
    /\ perms = << >>
    /\ permutation_queue = << >>
    /\ dist_queue = << >>
    /\ wpc = [w \in 1..MaxWorkers |-> "none"]
    /\ wjob = [w \in 1..MaxWorkers |-> NoJob]
    /\ dpc = "none"
    /\ di = 0
    /\ wlog = << >>
    /\ takes = [k \in 1..MaxSamples |-> 0]
    /\ qres = NoResult

PoolOrchestrator ==
    \/ RunPermutation
    \/ PutPerm
    \/ PutSentinel
    \/ JoinWorker
    \/ RunFinalize

PoolWorker(w) ==
    \/ WorkerGet(w)
    \/ PermutationWorker(w)

PoolNext ==
    \/ PoolOrchestrator
    \/ \E w \in 1..MaxWorkers : PoolWorker(w)
    \/ DistributionWorker

\* every process is an operating-system process that keeps being scheduled
FairSpec ==
    /\ PoolInit
    /\ [][PoolNext]_vars
    /\ WF_vars(PoolOrchestrator)
    /\ \A w \in 1..MaxWorkers : WF_vars(PoolWorker(w))
    /\ WF_vars(DistributionWorker)

(* ------------------------- the constructor call ----------------------- *)
ThresholdStrs ==
    {<<"t", "f", "c", "e">>, <<"T", "F", "C", "E">>, <<"T", "f", "c", "e">>,
     <<"t", "f", "c">>, <<"t", "f", "c", "e", "s">>, <<"1">>, << >>}

ThresholdArgs ==
    {PyNone, PyObject} \cup {PyNum(x) : x \in -1..2} \cup {PyStr(str) : str \in ThresholdStrs}

TailArgs == -2..2

CriteriaKeys ==
    {<<"m", "i", "n", "t", "i", "m", "e">>,
     <<"m", "i", "n", "s", "o", "u", "r", "c", "e">>,
     <<"m", "i", "n">>,
     <<"f", "o", "o">>}

\* the criteria dict: no item, one item, or mintime and a second item
CriteriaDicts ==
    {<< >>}
    \cup {<< <<k, v>> >> : k \in CriteriaKeys, v \in {0, 2}}
    \cup {<< <<(<<"m", "i", "n", "t", "i", "m", "e">>), 2>>, <<k, 1>> >> :
            k \in CriteriaKeys \ {<<"m", "i", "n", "t", "i", "m", "e">>}}

\* (tstart, tstop)
WindowArgs == {<<None, None>>, <<Some(2), None>>, <<None, Some(MapLen)>>}

\* no distribution has been constructed yet
NewInit ==
    /\ MULTIPROCESSING = 1
    /\ N_WORKERS = MaxWorkers
    /\ design = "single"
    /\ cd = [e \in Effects |-> ClusterDist_init(0, None, 0, << >>, FALSE)]
    /\ opc = "new"
    /\ oi = 1
    /\ perms = << >>
    /\ permutation_queue = << >>
    /\ dist_queue = << >>
    /\ wpc = [w \in 1..MaxWorkers |-> "none"]
    /\ wjob = [w \in 1..MaxWorkers |-> NoJob]
    /\ dpc = "none"
    /\ di = 0
    /\ wlog = << >>
    /\ takes = [k \in 1..MaxSamples |-> 0]
    /\ qres = NoResult

\* cdist = _ClusterDist(...): the object is bound, or the exception leaves
\* the caller
Construct ==
    /\ opc = "new"
    /\ \E samples \in 0..MaxSamples, threshold \in ThresholdArgs, tail \in TailArgs,
          window \in WindowArgs, criteria \in CriteriaDicts, force \in BOOLEAN :
          LET r == ClusterDist_new(samples, threshold, tail, window[1], window[2],
                                   criteria, force)
          IN /\ qres' = [op |-> "__init__", finalized |-> FALSE, has_original |-> FALSE,
                         error |-> r.error, value |-> None,
                         args |-> [samples |-> samples, threshold |-> threshold,
                                   tail |-> tail, tstart |-> window[1],
                                   tstop |-> window[2], criteria |-> criteria,
                                   force_permutation |-> force]]
             /\ cd' = IF r.error = "" THEN [cd EXCEPT ![1] = Val(r.value)] ELSE cd
             /\ opc' = IF r.error = "" THEN "init" ELSE "raised"
    /\ UNCHANGED <<MULTIPROCESSING, N_WORKERS, design, oi, perms, wlog>>
    /\ UNCHANGED pool_vars

NewSpec == NewInit /\ [][Construct]_vars

(* ---------------------- labeling a longer map ------------------------- *)
\* statistic maps of LabLen samples
LabMaps == [1..LabLen -> StatVals]

\* the minimum extents of the criteria list (None: no list)
LabCriteria ==
    {<< >>} \cup {<<v>> : v \in {0, 2, 6}} \cup {<<v, w>> : v, w \in {0, 2, 6}}

\* a Cluster-kind distribution (threshold 1) over a map of LabLen samples
LabelInit ==
    /\ MULTIPROCESSING = 0
    /\ N_WORKERS = MaxWorkers
    /\ design = "single"
    /\ \E tail \in Tails, criteria \in LabCriteria :
          cd = [e \in Effects |->
                  IF e # 1 THEN ClusterDist_init(0, None, 0, << >>, FALSE)
                  ELSE [ClusterDist_init(1, Some(1), tail, criteria, FALSE)
                            EXCEPT !.shape = LabLen]]
    /\ opc = "init"
    /\ oi = 1
    /\ perms = << >>
    /\ permutation_queue = << >>
    /\ dist_queue = << >>
    /\ wpc = [w \in 1..MaxWorkers |-> "none"]
    /\ wjob = [w \in 1..MaxWorkers |-> NoJob]
    /\ dpc = "none"
    /\ di = 0
    /\ wlog = << >>
    /\ takes = [k \in 1..MaxSamples |-> 0]
    /\ qres = NoResult

\* cdist.add_original(stat_map); qres keeps the map and what label_clusters
\* returned for it, before add_original cleaned the cluster map
AddOriginalLabel ==
    /\ opc = "init"
    /\ ~cd[1].has_original
    /\ \E stat_map \in LabMaps :
          /\ cd' = [cd EXCEPT ![1] = add_original(@, stat_map, MULTIPROCESSING)]
          /\ qres' = [op |-> "label_clusters", finalized |-> FALSE,
                      has_original |-> FALSE, error |-> "",
                      value |-> Some(LabelClusters(stat_map, Val(cd[1].threshold),
                                                   cd[1].tail, cd[1].criteria)),
                      stat_map |-> stat_map]
    /\ opc' = "added"
    /\ UNCHANGED <<MULTIPROCESSING, N_WORKERS, design, oi, perms, wlog>>
    /\ UNCHANGED pool_vars

LabelSpec == LabelInit /\ [][AddOriginalLabel]_vars

(* ------------------------- shared vocabulary -------------------------- *)
\* the pool was set up: the run took the pooled branch
PooledRun == MULTIPROCESSING = 1 /\ dpc # "none"

\* the reduced statistic of the k-th permutation the iterator yields
JobStat(k) == MaxStat(map_args(cd[1]), TestFunc(perms[k], 1))

\* what the single-process loop leaves in the buffer for these permutations
SequentialDist == [k \in 1..Len(perms) |-> JobStat(k)]

SameBag(a, b) ==
    \A v \in Range(a) \cup Range(b) :
        Cardinality({i \in DOMAIN a : a[i] = v}) = Cardinality({i \in DOMAIN b : b[i] = v})

SingleRunDone == design = "single" /\ opc = "done" /\ cd[1].do_permutation

\* the rows of effect e's buffer that were written so far
RowsWritten(e) == {wlog[x].row : x \in {y \in DOMAIN wlog : wlog[y].e = e}}

\* add_original found no cluster on a Cluster-kind distribution, not forced
ZeroClusters(d) ==
    d.kind = "cluster" /\ d.has_original /\ d.n_clusters = 0 /\ ~d.force_permutation

AllOnes(d) == [j \in 1..d.shape |-> d.samples]

(* ------------------------------- claims ------------------------------- *)

C3_FailureReported ==
    (\E w \in 1..MaxWorkers : wpc[w] = "failed") =>
        (opc = "raised" \/ ENABLED NextFail)

\* C4: in a pooled run finalize() is reached only when every permutation
\* worker and the distribution worker have exited, and every row of every
\* permuted distribution has been written by then.
C4_FinalizeAfterJoin ==
    (PooledRun /\ opc \in {"finalize", "done"}) =>
        /\ \A w \in Workers : wpc[w] = "exited"
        /\ dpc = "exited"
        /\ \A i \in DOMAIN dists :
              cd[dists[i]].do_permutation =>
                  RowsWritten(dists[i]) = 1..cd[dists[i]].samples

C4_Witness ==
    /\ PooledRun /\ opc = "finalize"
    /\ N_WORKERS >= 2
    /\ cd[1].samples >= 2
    /\ RowsWritten(1) = 1..cd[1].samples

\* the job protocol of a pooled run
C5_Protocol ==
    /\ \A k \in DOMAIN takes : takes[k] <= 1
    /\ \A i, j \in DOMAIN permutation_queue :
          (i < j /\ IsNone(permutation_queue[i].perm)) => IsNone(permutation_queue[j].perm)
    /\ opc \in {"join", "finalize", "done"} =>
          Cardinality({i \in DOMAIN permutation_queue : IsNone(permutation_queue[i].perm)})
            + Cardinality({w \in Workers : wpc[w] = "exited"}) = N_WORKERS
    /\ opc = "done" =>
          /\ \A k \in 1..Len(perms) : takes[k] = 1
          /\ permutation_queue = << >>
          /\ dist_queue = << >>
          /\ \A w \in Workers : wpc[w] = "exited"
          /\ dpc = "exited"
          /\ di = cd[1].samples
          /\ Len(perms) = cd[1].samples

\* C5: under fair scheduling a pooled run terminates: every job is taken by
\* exactly one worker, one sentinel per worker is enqueued after the jobs and
\* each worker consumes one, the distribution worker consumes `samples`
\* results, and all joins return.
C5_PooledRunTerminates == <>(opc = "done") /\ []C5_Protocol

C5_Witness ==
    /\ opc = "done" /\ PooledRun
    /\ N_WORKERS >= 2
    /\ cd[1].samples >= 2
    /\ \A k \in 1..Len(perms) : takes[k] = 1

\* C6: in a pooled run only the distribution worker's step changes a null
\* distribution buffer, and it writes every row exactly once.
C6_SingleWriter ==
    /\ [][(PooledRun /\ \E e \in Effects :
                ~IsNone(cd[e].dist) /\ cd'[e].dist # cd[e].dist)
            => (dpc = "run" /\ di' = di + 1 /\ dist_queue' = Tail(dist_queue)
                /\ wpc' = wpc /\ opc' = opc)]_vars
    /\ [](PooledRun =>
            /\ \A i \in DOMAIN wlog : wlog[i].proc = "dist"
            /\ \A i, j \in DOMAIN wlog :
                  (i # j /\ wlog[i].e = wlog[j].e) => wlog[i].row # wlog[j].row
            /\ opc = "done" =>
                  \A i \in DOMAIN dists :
                      cd[dists[i]].do_permutation =>
                          RowsWritten(dists[i]) = 1..cd[dists[i]].samples)

C6_Witness ==
    /\ PooledRun /\ opc = "done"
    /\ N_WORKERS >= 2
    /\ Len(wlog) >= 2
    /\ \A i \in DOMAIN wlog : wlog[i].proc = "dist"

C8_AllOnesAnySamples ==
    (ZeroClusters(cd[1]) /\ qres.op = "probability_map") =>
        (qres.error = "" /\ qres.value = Some(AllOnes(cd[1])))

\* C8 (amended): after a zero-cluster original map, not forced, the
\* distribution is finalized and, for samples >= 1, its probability map is 1
\* at every sample; for samples = 0 there is no probability map: the
\* probability_map property is None and compute_probability_map raises.
C8_AllOnes ==
    (ZeroClusters(cd[1]) /\ qres.op \in {"probability_map", "compute_probability_map"}) =>
        /\ cd[1].finalized
        /\ cd[1].samples >= 1 =>
              (qres.error = "" /\ qres.value = Some(AllOnes(cd[1])))
        /\ cd[1].samples = 0 =>
              /\ qres.op = "probability_map" =>
                    (qres.error = "" /\ qres.value = Some(None))
              /\ qres.op = "compute_probability_map" =>
                    (qres.error = "RuntimeError" /\ IsNone(qres.value))

C8_Witness ==
    /\ ZeroClusters(cd[1])
    /\ qres.op = "compute_probability_map"
    /\ cd[1].samples >= 2
    /\ qres.error = ""
    /\ qres.value = Some(AllOnes(cd[1]))

\* C9: for every distribution a test constructor drives, finalize() runs at
\* most once, only after add_original, exactly once by the time the
\* constructor returns, and no row is written once it has run.
C9_FinalizedOnce ==
    /\ \A i \in DOMAIN dists :
          LET d == cd[dists[i]]
          IN /\ d.nfinalize <= 1
             /\ d.finalized <=> d.nfinalize = 1
             /\ d.finalized => d.has_original
             /\ opc = "done" => d.nfinalize = 1
    /\ \A x \in DOMAIN wlog : ~wlog[x].finalized

C9_Witness ==
    /\ design = "multi" /\ opc = "done" /\ PooledRun
    /\ cd[1].samples >= 2
    /\ \E i, j \in DOMAIN dists :
          /\ cd[dists[i]].do_permutation /\ ~cd[dists[j]].do_permutation
          /\ cd[dists[i]].nfinalize = 1 /\ cd[dists[j]].nfinalize = 1
          /\ RowsWritten(dists[i]) = 1..cd[1].samples

\* C10: a query on a distribution that is not finalized fails with an error
\* and returns no result.
C10_QueriesRequireFinalize ==
    (/\ qres.op \in {"clusters", "find_peaks", "compute_probability_map",
                     "masked_parameter_map", "cluster"}
     /\ ~qres.finalized) =>
        (qres.error # "" /\ IsNone(qres.value))

\* the fields of a distribution that add_original assigns from the map
OriginalFields(d) ==
    <<d.original_param_map, d.original_cluster_map, d.cids, d.n_clusters>>

\* C11: the original map is added at most once: a second add_original raises
\* RuntimeError and changes nothing (original parameter map, cluster map,
\* cluster ids, n_clusters, buffer, has_original, do_permutation, finalized),
\* and no step ever changes the original fields once they are set.
C11_AddedOnce ==
    /\ [][AddOriginalAgain =>
            /\ cd' = cd
            /\ qres'.op = "add_original"
            /\ qres'.error = "RuntimeError"]_vars
    /\ [][\A e \in Effects :
            cd[e].has_original =>
                /\ cd'[e].has_original
                /\ OriginalFields(cd'[e]) = OriginalFields(cd[e])]_vars

C11_Witness ==
    /\ qres.op = "add_original"
    /\ qres.error = "RuntimeError"
    /\ opc = "done"
    /\ cd[1].do_permutation /\ cd[1].finalized
    /\ \E i \in DOMAIN Val(cd[1].dist) : Val(cd[1].dist)[i] # 0

\* a constructor call was made and its outcome is in qres
Constructed == qres.op = "__init__"

\* the spellings of 'tfce' in any mix of upper and lower case
TfceSpellings ==
    {str \in ThresholdStrs :
        /\ Len(str) = 4
        /\ str[1] \in {"t", "T"} /\ str[2] \in {"f", "F"}
        /\ str[3] \in {"c", "C"} /\ str[4] \in {"e", "E"}}

\* the kind a threshold argument stands for, "" when it stands for none
KindOf(threshold) ==
    IF threshold.type = "NoneType" THEN "raw"
    ELSE IF threshold.type = "str" /\ threshold.s \in TfceSpellings THEN "tfce"
    ELSE IF threshold.type = "float" /\ threshold.x > 0 THEN "cluster"
    ELSE ""

\* C12 (as stated): None gives Raw, the string 'tfce' gives TFCE, a number
\* > 0 gives Cluster with that threshold, and every other value, any other
\* string included, is rejected with an error at construction.
C12_OnlyLowerCaseTfce ==
    (Constructed /\ qres.args.threshold.type = "str"
        /\ qres.args.threshold.s # <<"t", "f", "c", "e">>) => qres.error # ""

\* C12 (amended): None gives Raw, a string that reads 'tfce' in any mix of
\* upper and lower case gives TFCE (threshold None), a number > 0 gives
\* Cluster with that threshold; every other value is rejected at
\* construction: ValueError for another string or a number <= 0, TypeError
\* for a value that is not a number; nothing is constructed then.
C12_ThresholdToKind ==
    Constructed =>
        LET t == qres.args.threshold
        IN /\ qres.error = "" =>
                /\ opc = "init"
                /\ cd[1].kind = KindOf(t)
                /\ cd[1].kind = "cluster" <=> cd[1].threshold = Some(t.x)
                /\ cd[1].kind # "cluster" <=> IsNone(cd[1].threshold)
           /\ KindOf(t) = "" =>
                /\ qres.error = (IF t.type = "object" THEN "TypeError" ELSE "ValueError")
                /\ opc = "raised"
                /\ cd[1] = ClusterDist_init(0, None, 0, << >>, FALSE)
           /\ (KindOf(t) # "" /\ qres.args.criteria = << >>) => qres.error = ""

C12_Witness ==
    /\ Constructed /\ qres.error = ""
    /\ qres.args.threshold = PyStr(<<"T", "F", "C", "E">>)
    /\ cd[1].kind = "tfce"

\* C13: a tail outside {-1, 0, 1} is rejected with an error at construction.
C13_TailValidated ==
    (Constructed /\ qres.args.tail \notin {-1, 0, 1}) =>
        (qres.error # "" /\ opc = "raised")

\* C14: a size criterion (mintime, min<dim>) together with the TFCE kind is
\* rejected with an error at construction: no object is bound, no original
\* map was added and no permutation was run.
C14_NoCriteriaWithTfce ==
    (Constructed /\ KindOf(qres.args.threshold) = "tfce" /\ qres.args.criteria # << >>) =>
        /\ qres.error # ""
        /\ opc = "raised"
        /\ cd[1] = ClusterDist_init(0, None, 0, << >>, FALSE)
        /\ ~cd[1].has_original
        /\ perms = << >> /\ wlog = << >> /\ dpc = "none"

C14_Witness ==
    /\ Constructed
    /\ qres.args.threshold = PyStr(<<"t", "f", "c", "e">>)
    /\ qres.args.criteria = << <<(<<"m", "i", "n", "t", "i", "m", "e">>), 2>> >>
    /\ qres.args.tail = 0
    /\ qres.error = "ValueError"

\* label_clusters was called by add_original and its outcome is in qres
Labelled == qres.op = "label_clusters"

\* the samples label i occupies in a cluster map
Extent(cmap, i) == {j \in DOMAIN cmap : cmap[j] = i}

IsDense(cids) == cids = [i \in 1..Len(cids) |-> i]

C16_DisjointBipolarIds ==
    (Labelled /\ cd[1].tail = 0) =>
        LET l == Val(qres.value)
            stat_map == qres.stat_map
            threshold == Val(cd[1].threshold)
            pos == {j \in DOMAIN stat_map : stat_map[j] > threshold}
            neg == {j \in DOMAIN stat_map : stat_map[j] < -threshold}
            absmask == [j \in DOMAIN stat_map |-> Abs(stat_map[j]) > threshold]
        IN /\ {l.cmap[j] : j \in pos} \cap {l.cmap[j] : j \in neg} = {}
           /\ \A i, j \in DOMAIN l.cids : i # j => l.cids[i] # l.cids[j]
           /\ \A c \in Range(l.cids) :
                 Extent(l.cmap, c) # {}
                 /\ (Extent(l.cmap, c) \subseteq pos \/ Extent(l.cmap, c) \subseteq neg)
           /\ IsNone(cd[1].criteria) =>
                 /\ {j \in DOMAIN l.cmap : l.cmap[j] # 0} = pos \cup neg
                 /\ {j \in DOMAIN l.cmap : l.cmap[j] # 0} =
                    {j \in DOMAIN absmask : NdimageLabel(absmask)[j] # 0}

C16_Witness ==
    /\ Labelled /\ cd[1].tail = 0
    /\ cd[1].criteria = Some(<<2>>)
    /\ LET l == Val(qres.value)
       IN /\ \E j \in DOMAIN l.cmap :
                qres.stat_map[j] > 0 /\ l.cmap[j] # 0 /\ l.cmap[j] \notin Range(l.cids)
          /\ \E j \in DOMAIN l.cmap :
                qres.stat_map[j] < 0 /\ l.cmap[j] \in Range(l.cids)

WindowLen(d) ==
    IF d.crop_for_permutation
    THEN Val(d.crop_idx).stop - Val(d.crop_idx).start + 1
    ELSE MapLen

\* the last query returned a map
MapReturned ==
    /\ qres.op \in {"compute_probability_map", "probability_map", "masked_parameter_map"}
    /\ qres.error = ""
    /\ cd[1].samples > 0

ReportedP ==
    IF qres.error # "" \/ cd[1].samples = 0 THEN {}
    ELSE IF qres.op \in {"compute_probability_map", "probability_map"}
    THEN Range(Val(qres.value))
    ELSE IF qres.op = "clusters"
    THEN {Val(Val(qres.value)[i].p) : i \in DOMAIN Val(qres.value)}
    ELSE {}

ClusterSum(d, c) ==
    SumOver(Val(d.original_param_map),
            {j \in 1..d.shape : Val(d.original_cluster_map)[j] = c})

\* the number of permutations whose null statistic is greater than |v_c|
LargerThanCluster(d, c) ==
    Cardinality({i \in 1..d.samples : Val(d.dist)[i] > Abs(ClusterSum(d, c))})

\* C19: for Cluster kind with n permutations the probability map that
\* compute_probability_map returns gives every sample of surviving cluster c
\* the value (number of permutations whose null statistic is strictly
\* greater than |v_c|) / n, v_c the summed statistic of c, and 1 to every
\* background sample; the cluster table has a row for every surviving
\* cluster with the same value in its p column.
C19_ClusterProbability ==
    (cd[1].kind = "cluster" /\ cd[1].samples >= 1 /\ qres.error = "") =>
        LET d == cd[1]
            cmap == Val(d.original_cluster_map)
            cids == Val(d.cids)
        IN /\ qres.op = "compute_probability_map" =>
                 /\ DOMAIN Val(qres.value) = 1..d.shape
                 /\ \A j \in 1..d.shape :
                       Val(qres.value)[j] =
                           IF cmap[j] \in Range(cids)
                           THEN LargerThanCluster(d, cmap[j])
                           ELSE d.samples
           /\ qres.op = "clusters" =>
                 /\ Len(Val(qres.value)) = Len(cids)
                 /\ \A i \in DOMAIN cids :
                       /\ Val(qres.value)[i].id = cids[i]
                       /\ Val(qres.value)[i].v = ClusterSum(d, cids[i])
                       /\ Val(qres.value)[i].p = Some(LargerThanCluster(d, cids[i]))

C19_Witness ==
    /\ qres.op = "compute_probability_map" /\ qres.error = ""
    /\ cd[1].kind = "cluster"
    /\ opc = "done" /\ cd[1].do_permutation
    /\ cd[1].samples >= 2
    /\ \E j \in 1..cd[1].shape :
          /\ Val(cd[1].original_cluster_map)[j] # 0
          /\ Val(qres.value)[j] \notin {0, cd[1].samples}
    /\ \E j \in 1..cd[1].shape :
          /\ Val(cd[1].original_cluster_map)[j] = 0
          /\ Val(qres.value)[j] = cd[1].samples

(* ------------------------ the masked parameter map -------------------- *)
\* the observed value a threshold-free sample is compared with (Raw kind)
ObservedValue(d, j) ==
    IF d.tail = 0 THEN Abs(Val(d.original_param_map)[j])
    ELSE IF d.tail < 0 THEN -Val(d.original_param_map)[j]
    ELSE Val(d.original_param_map)[j]

\* the corrected p-value of sample j, as numerator over samples: the p-value
\* of the surviving cluster the sample is in (1 outside of every cluster), or
\* for a threshold-free kind the share of permutations above the sample
CorrectedP(d, j) ==
    IF d.kind = "cluster"
    THEN IF Val(d.original_cluster_map)[j] \in Range(Val(d.cids))
         THEN LargerThanCluster(d, Val(d.original_cluster_map)[j])
         ELSE d.samples
    ELSE Cardinality({i \in 1..d.samples : Val(d.dist)[i] > ObservedValue(d, j)})

\* the pmin the last masked_parameter_map call used (None stands for 1)
UsedPmin == IF IsNone(qres.pmin) THEN <<1, 1>> ELSE Val(qres.pmin)

\* C21: on a finalized distribution masked_parameter_map(pmin) with pmin < 1
\* returns the original parameter map at every sample whose corrected p-value
\* is <= pmin and 0 at every other sample; with pmin = 1 it returns the
\* original parameter map at every sample inside a surviving cluster and 0
\* elsewhere for Cluster kind, and raises ValueError for every other kind.
C21_MaskedMap ==
    (qres.op = "masked_parameter_map" /\ qres.finalized) =>
        LET d == cd[1]
            param_map == Val(d.original_param_map)
        IN IF UsedPmin[1] = UsedPmin[2]
           THEN IF d.kind # "cluster" THEN qres.error = "ValueError"
                ELSE /\ qres.error = ""
                     /\ Val(qres.value) =
                           [j \in 1..d.shape |->
                               IF Val(d.original_cluster_map)[j] \in Range(Val(d.cids))
                               THEN param_map[j] ELSE 0]
           ELSE d.samples > 0 =>
                     /\ qres.error = ""
                     /\ Val(qres.value) =
                           [j \in 1..d.shape |->
                               IF CorrectedP(d, j) * UsedPmin[2] <= UsedPmin[1] * d.samples
                               THEN param_map[j] ELSE 0]

C21_Witness ==
    /\ qres.op = "masked_parameter_map" /\ qres.finalized /\ qres.error = ""
    /\ qres.pmin = Some(<<1, 2>>)
    /\ cd[1].samples = 2
    /\ opc = "done" /\ cd[1].do_permutation
    /\ \E j \in 1..cd[1].shape :
          /\ CorrectedP(cd[1], j) = 1
          /\ Val(qres.value)[j] # 0
    /\ \E j \in 1..cd[1].shape :
          /\ CorrectedP(cd[1], j) = 2
          /\ Val(cd[1].original_param_map)[j] # 0
          /\ Val(qres.value)[j] = 0

(* ------------------------------ pickling ------------------------------ *)
\* the distribution pickle.loads(pickle.dumps(d)) returned
Restored == Val(qres.value)

TfceMaps == [1..TfceLen -> (-TfceMax)..TfceMax]

\* a TFCE-kind distribution over a map of TfceLen samples
TfceInit ==
    /\ MULTIPROCESSING = 0
    /\ N_WORKERS = MaxWorkers
    /\ design = "single"
    /\ \E tail \in Tails :
          cd = [e \in Effects |->
                  IF e # 1 THEN ClusterDist_init(0, None, 0, << >>, FALSE)
                  ELSE [ClusterDist_init(1, None, tail, << >>, FALSE)
                            EXCEPT !.kind = "tfce", !.shape = TfceLen]]
    /\ opc = "init"
    /\ oi = 1
    /\ perms = << >>
    /\ permutation_queue = << >>
    /\ dist_queue = << >>
    /\ wpc = [w \in 1..MaxWorkers |-> "none"]
    /\ wjob = [w \in 1..MaxWorkers |-> NoJob]
    /\ dpc = "none"
    /\ di = 0
    /\ wlog = << >>
    /\ takes = [k \in 1..MaxSamples |-> 0]
    /\ qres = NoResult

\* cdist.add_original(stat_map): the enhanced map is stored as the original
\* cluster map
AddOriginalTfce ==
    /\ opc = "init"
    /\ ~cd[1].has_original
    /\ \E stat_map \in TfceMaps :
          cd' = [cd EXCEPT ![1] = add_original(@, stat_map, MULTIPROCESSING)]
    /\ opc' = "added"
    /\ UNCHANGED <<MULTIPROCESSING, N_WORKERS, design, oi, perms, wlog, qres>>
    /\ UNCHANGED pool_vars

TfceSpec == TfceInit /\ [][AddOriginalTfce]_vars

(* ----------------- the threshold-free kinds, sequentially ------------- *)
\* a Raw or TFCE distribution with at least one permutation, run in one
\* process
FreeInit ==
    /\ MULTIPROCESSING = 0
    /\ N_WORKERS = MaxWorkers
    /\ design = "single"
    /\ \E samples \in 1..MaxSamples, tail \in Tails, kind \in {"raw", "tfce"} :
          cd = [e \in Effects |->
                  IF e # 1 THEN ClusterDist_init(0, None, 0, << >>, FALSE)
                  ELSE [ClusterDist_init(samples, None, tail, << >>, FALSE)
                            EXCEPT !.kind = kind]]
    /\ opc = "init"
    /\ oi = 1
    /\ perms = << >>
    /\ permutation_queue = << >>
    /\ dist_queue = << >>
    /\ wpc = [w \in 1..MaxWorkers |-> "none"]
    /\ wjob = [w \in 1..MaxWorkers |-> NoJob]
    /\ dpc = "none"
    /\ di = 0
    /\ wlog = << >>
    /\ takes = [k \in 1..MaxSamples |-> 0]
    /\ qres = NoResult

FreeNext ==
    \/ AddOriginal
    \/ RunPermutation
    \/ SequentialStep
    \/ RunFinalize
    \/ Query

FreeSpec == FreeInit /\ [][FreeNext]_vars

(* -------------- a parcellated source space (non-grid axis) ------------ *)
\* the sources of the source space
Sources == 1..NSources

\* the cells of the parcellation
Regions == {1, 2}

\* SourceSpace.parc: the region of every source (the first half of the
\* sources lies in region 1)
SourceParc == [s \in Sources |-> IF 2 * s <= NSources THEN 1 ELSE 2]

\* SourceSpace._connectivity_full(): pairs [src, dst] with src < dst; the
\* sources form a chain, or a chain with one more edge across the regions
ConnectivityGraphs ==
    {{<<s, s + 1>> : s \in 1..(NSources - 1)},
     {<<s, s + 1>> : s \in 1..(NSources - 1)} \cup {<<1, NSources>>}}

\* SourceSpace.connectivity(disconnect_parc)
connectivity(full, disconnect_parc) ==
    IF disconnect_parc
    THEN {c \in full : SourceParc[c[1]] = SourceParc[c[2]]}
    ELSE full

\* __init__: parc_indexes, np.flatnonzero(parc_ == cell) for every cell
parc_indexes == [r \in Regions |-> {s \in Sources : SourceParc[s] = r}]

\* statistic maps over the sources
SourceMaps == [Sources -> StatVals]

\* the elements of a set of numbers in ascending order
RECURSIVE SortedSeq(_)
SortedSeq(S) ==
    IF S = {} THEN << >>
    ELSE <<SetMin(S)>> \o SortedSeq(S \ {SetMin(S)})

\* scipy.ndimage.label with the structure of _make_struct(1, False), which
\* connects no two sources: every True sample is a feature of its own
NdimageLabelNad(bin_map) ==
    [j \in DOMAIN bin_map |->
        IF bin_map[j] THEN Cardinality({i \in 1..j : bin_map[i]}) ELSE 0]

\* the labelled sources that an edge of conn joins to a source of S
RECURSIVE Component(_, _, _)
Component(S, cmap, conn) ==
    LET more == {j \in DOMAIN cmap :
                    /\ cmap[j] # 0
                    /\ \E i \in S : <<i, j>> \in conn \/ <<j, i>> \in conn}
    IN IF more \subseteq S THEN S ELSE Component(S \cup more, cmap, conn)

\* opt.merge_labels(cmap, n_labels_in, conn): labels that an edge of conn
\* joins are merged into the smallest of them, in place; returns the ids left
merge_labels(cmap, n, conn) ==
    LET merged == [j \in DOMAIN cmap |->
                      IF cmap[j] = 0 THEN 0
                      ELSE SetMin({cmap[i] : i \in Component({j}, cmap, conn)})]
    IN [cmap |-> merged, cids |-> SortedSeq(Range(merged) \ {0})]

\* _label_clusters_binary with all_adjacent False on a map over the sources
LabelClustersBinaryNad(bin_map, conn, criteria) ==
    LET cmap == NdimageLabelNad(bin_map)
        n == SetMax(Range(cmap) \cup {0})
        l == IF n = 1 THEN [cmap |-> cmap, cids |-> <<1>>]
             ELSE merge_labels(cmap, n, conn)
    IN [cmap |-> l.cmap,
        cids |-> IF IsNone(criteria) THEN l.cids
                 ELSE ApplyCriteria(l.cmap, l.cids, Val(criteria))]

\* _label_clusters with all_adjacent False
LabelClustersNad(stat_map, threshold, tail, conn, criteria) ==
    LET above == [j \in DOMAIN stat_map |-> stat_map[j] > threshold]
        below == [j \in DOMAIN stat_map |-> stat_map[j] < -threshold]
        up == LabelClustersBinaryNad(above, conn, criteria)
        lo == LabelClustersBinaryNad(below, conn, criteria)
        x == SetMax(Range(up.cmap) \cup {0})
        int_buff == [j \in DOMAIN stat_map |->
                        IF below[j] THEN lo.cmap[j] + x ELSE lo.cmap[j]]
    IN IF tail > 0 THEN up
       ELSE IF tail < 0 THEN lo
       ELSE [cmap |-> [j \in DOMAIN stat_map |-> up.cmap[j] + int_buff[j]],
             cids |-> up.cids \o [i \in DOMAIN lo.cids |-> lo.cids[i] + x]]

\* StatMapProcessor.max_stat with a parcellation: the maximum of every region
StatMapProcessor_max_stat_parc(stat_map, tail, parc) ==
    LET v == [j \in DOMAIN stat_map |->
                 IF tail = 0 THEN Abs(stat_map[j])
                 ELSE IF tail > 0 THEN stat_map[j]
                 ELSE -stat_map[j]]
    IN [r \in DOMAIN parc |-> SetMax({v[j] : j \in parc[r]})]

\* mutant: the sums are taken over the whole cluster map in every region
ClusterProcessor_max_stat_parc_WholeMap(stat_map, threshold, tail, conn, criteria, parc) ==
    LET l == LabelClustersNad(stat_map, threshold, tail, conn, criteria)
    IN [r \in DOMAIN parc |->
           LET clusters_v == NdimageSum(stat_map, l.cmap, l.cids)
           IN IF Len(clusters_v) > 0
              THEN IF tail <= 0
                   THEN SetMax({Abs(clusters_v[i]) : i \in DOMAIN clusters_v})
                   ELSE SetMax(Range(clusters_v))
              ELSE 0]

\* ClusterProcessor.max_stat with a parcellation: ndimage.sum(stat_map[idx],
\* cmap[idx], cids) for the sources idx of every region
ClusterProcessor_max_stat_parc(stat_map, threshold, tail, conn, criteria, parc) ==
    LET l == LabelClustersNad(stat_map, threshold, tail, conn, criteria)
    IN [r \in DOMAIN parc |->
           LET clusters_v == [i \in DOMAIN l.cids |->
                                 SumOver(stat_map, {j \in parc[r] : l.cmap[j] = l.cids[i]})]
           IN IF Len(clusters_v) > 0
              THEN IF tail <= 0
                   THEN SetMax({Abs(clusters_v[i]) : i \in DOMAIN clusters_v})
                   ELSE SetMax(Range(clusters_v))
              ELSE 0]

\* ClusterProcessor.max_stat without a parcellation, all_adjacent False
ClusterProcessor_max_stat_nad(stat_map, threshold, tail, conn, criteria) ==
    LET l == LabelClustersNad(stat_map, threshold, tail, conn, criteria)
        clusters_v == NdimageSum(stat_map, l.cmap, l.cids)
    IN IF Len(l.cids) > 0
       THEN IF tail <= 0 THEN SetMax({Abs(clusters_v[i]) : i \in DOMAIN clusters_v})
            ELSE SetMax(Range(clusters_v))
       ELSE 0

\* _ClusterDist(y, samples, threshold, tail, criteria={'minsource': v},
\* parc=parc) for data over the source space with connectivity graph `full`
SourceDist_init(samples, threshold, tail, criteria, parc, full) ==
    [parc |-> parc, connectivity |-> connectivity(full, ~IsNone(parc))]
    @@ [ClusterDist_init(samples, threshold, tail, criteria, FALSE)
            EXCEPT !.shape = NSources]

\* get_map_processor(*d.map_args).max_stat(stat_map) for a map over the
\* sources: one value, or one value per region
MaxStatSource(d, stat_map) ==
    IF d.kind = "cluster"
    THEN IF IsNone(d.parc)
         THEN ClusterProcessor_max_stat_nad(stat_map, Val(d.threshold), d.tail,
                                            d.connectivity, d.criteria)
         ELSE ClusterProcessor_max_stat_parc(stat_map, Val(d.threshold), d.tail,
                                             d.connectivity, d.criteria, parc_indexes)
    ELSE IF IsNone(d.parc)
         THEN StatMapProcessor_max_stat(stat_map, d.tail)
         ELSE StatMapProcessor_max_stat_parc(stat_map, d.tail, parc_indexes)

(* ----------- a distribution over the parcellated source space -------- *)
\* _ClusterDist.add_original(stat_map) for a map over the sources; with a
\* parcellation a row of the null distribution holds one value per region
add_original_source(d, stat_map) ==
    IF d.has_original THEN d ELSE
    LET l == LabelClustersNad(stat_map, Val(d.threshold), d.tail, d.connectivity,
                              d.criteria)
        cmap == IF d.kind = "cluster" THEN clean_cluster_map(l.cmap, l.cids) ELSE stat_map
        cids == IF d.kind = "cluster" THEN Some(l.cids) ELSE None
        n_clusters == IF d.kind = "cluster" THEN Len(l.cids) ELSE 1
        d1 == [d EXCEPT !.original_cluster_map = Some(cmap),
                        !.cids = cids,
                        !.n_clusters = n_clusters,
                        !.has_original = TRUE,
                        !.original_param_map = Some(stat_map)]
        zeros == IF IsNone(d.parc) THEN 0 ELSE [r \in Regions |-> 0]
    IN IF d.force_permutation \/ (d.samples # 0 /\ n_clusters # 0)
       THEN [create_dist(d1, 0) EXCEPT !.dist = Some([i \in 1..d.samples |-> zeros]),
                                       !.do_permutation = TRUE]
       ELSE finalize([d1 EXCEPT !.dist_array = None])

\* NDVar.sub(source=region) of a map over the sources: the values of the
\* sources of the region (a boolean index, hence a copy)
SubSource(map, sub) ==
    IF IsNone(sub) THEN map
    ELSE LET idx == SortedSeq(parc_indexes[Val(sub)])
         IN [k \in DOMAIN idx |-> map[idx[k]]]

\* mutant: the rows are aggregated with a running maximum over the rows
aggregate_dist_RunningMax(d, sub) ==
    IF ~IsNone(sub) /\ IsNone(d.parc) THEN Raise("TypeError")
    ELSE LET dist == Val(d.dist)
             row(i) == IF IsNone(d.parc) THEN dist[i]
                       ELSE IF IsNone(sub) THEN SetMax(Range(dist[i]))
                       ELSE dist[i][Val(sub)]
         IN Ok([i \in DOMAIN dist |-> SetMax({row(k) : k \in 1..i})])

\* _ClusterDist._aggregate_dist(**sub): one value per permutation, the
\* maximum over the regions or the value of the region sub names
aggregate_dist(d, sub) ==
    IF ~IsNone(sub) /\ IsNone(d.parc) THEN Raise("TypeError")
    ELSE LET dist == Val(d.dist)
         IN Ok([i \in DOMAIN dist |->
                   IF IsNone(d.parc) THEN dist[i]
                   ELSE IF IsNone(sub) THEN SetMax(Range(dist[i]))
                   ELSE dist[i][Val(sub)]])

\* _ClusterDist.compute_probability_map(**sub) on a distribution over the
\* sources; for Cluster kind the map keeps the full shape
compute_probability_map_source(d, sub) ==
    IF d.samples = 0 THEN Raise("RuntimeError")
    ELSE IF d.kind = "cluster"
    THEN IF ~d.has_original THEN Raise("AttributeError")
         ELSE IF d.n_clusters = 0 THEN Ok([j \in 1..d.shape |-> d.samples])
         ELSE IF IsNone(d.dist) THEN Raise("AttributeError")
         ELSE LET dist == aggregate_dist(d, sub)
                  cids == Val(d.cids)
                  cluster_map == Val(d.original_cluster_map)
                  cluster_v == NdimageSum(Val(d.original_param_map), cluster_map, cids)
              IN IF dist.error # "" THEN dist
                 ELSE Ok([j \in 1..d.shape |->
                            IF \E i \in DOMAIN cids : cluster_map[j] = cids[i]
                            THEN NLarger(Val(dist.value),
                                         Abs(cluster_v[CHOOSE i \in DOMAIN cids :
                                                          cluster_map[j] = cids[i]]))
                            ELSE d.samples])
    ELSE IF ~d.finalized THEN Raise("AttributeError")
         ELSE IF IsNone(d.dist) THEN Raise("AttributeError")
         ELSE LET parameter_map == Val(d.original_param_map)
                  stat_map == [j \in DOMAIN parameter_map |->
                                  IF d.tail = 0 THEN Abs(parameter_map[j])
                                  ELSE IF d.tail < 0 THEN -parameter_map[j]
                                  ELSE parameter_map[j]]
                  dist == aggregate_dist(d, sub)
                  stat_sub == SubSource(stat_map, sub)
              IN IF dist.error # "" THEN dist
                 ELSE Ok([j \in DOMAIN stat_sub |-> NLarger(Val(dist.value), stat_sub[j])])

\* _ClusterDist.clusters(pmin=None, **sub) on a distribution over the sources
clusters_source(d, sub) ==
    IF ~d.finalized THEN Raise("AttributeError")
    ELSE IF d.kind = "cluster"
    THEN LET param_map == SubSource(Val(d.original_param_map), sub)
             cluster_map == SubSource(Val(d.original_cluster_map), sub)
             cids == IF IsNone(sub) THEN Val(d.cids)
                     ELSE SortedSeq(Range(cluster_map) \ {0})
             cluster_v == NdimageSum(param_map, cluster_map, cids)
             dist == aggregate_dist(d, sub)
             dist_all == aggregate_dist(d, None)
         IN IF Len(cids) = 0 THEN Ok(<< >>)
            ELSE IF d.samples = 0
            THEN Ok([i \in DOMAIN cids |->
                        [id |-> cids[i], v |-> cluster_v[i], p |-> None, p_parc |-> None]])
            ELSE IF dist.error # "" THEN dist
            ELSE Ok([i \in DOMAIN cids |->
                        [id |-> cids[i], v |-> cluster_v[i],
                         p |-> Some(NLarger(Val(dist.value), Abs(cluster_v[i]))),
                         p_parc |-> IF IsNone(sub) THEN None
                                    ELSE Some(NLarger(Val(dist_all.value),
                                                      Abs(cluster_v[i])))]])
    ELSE LET pm == compute_probability_map_source(d, sub)
         IN IF pm.error # "" THEN pm
            ELSE IF ~IsNone(sub) THEN Raise("NotImplementedError")
            ELSE LET p_map == Val(pm.value)
                     bin_map == [j \in DOMAIN p_map |-> 20 * p_map[j] <= d.samples]
                     l == LabelClustersBinaryNad(bin_map, d.connectivity, None)
                 IN Ok([i \in DOMAIN l.cids |->
                          [id |-> l.cids[i],
                           p |-> Some(SetMin({p_map[j] : j \in
                                        {x \in DOMAIN p_map : l.cmap[x] = l.cids[i]}}))]])

SourceQueryOps == {"compute_probability_map", "clusters"}

\* the sub restrictions of a query: none, or source=<a region>
SourceSubs == {None} \cup {Some(r) : r \in Regions}

AnswerSource(op, d, sub) ==
    IF op = "clusters" THEN clusters_source(d, sub)
    ELSE compute_probability_map_source(d, sub)

\* a distribution over the source space has been constructed
RegionInit ==
    /\ MULTIPROCESSING = 0
    /\ N_WORKERS = MaxWorkers
    /\ design = "single"
    /\ \E threshold \in Thresholds, tail \in Tails, parc \in {None, Some("source")} :
          /\ cd = [e \in Effects |->
                     IF e # 1 THEN ClusterDist_init(0, None, 0, << >>, FALSE)
                     ELSE SourceDist_init(MaxSamples, threshold, tail, << >>, parc,
                                          {<<s, s + 1>> : s \in 1..(NSources - 1)})]
    /\ opc = "init"
    /\ oi = 1
    /\ perms = << >>
    /\ permutation_queue = << >>
    /\ dist_queue = << >>
    /\ wpc = [w \in 1..MaxWorkers |-> "none"]
    /\ wjob = [w \in 1..MaxWorkers |-> NoJob]
    /\ dpc = "none"
    /\ di = 0
    /\ wlog = << >>
    /\ takes = [k \in 1..MaxSamples |-> 0]
    /\ qres = NoResult

\* the constructor adds the original map
AddOriginalSource ==
    /\ opc = "init"
    /\ ~cd[1].has_original
    /\ \E stat_map \in SourceMaps :
          cd' = [cd EXCEPT ![1] = add_original_source(@, stat_map)]
    /\ opc' = "added"
    /\ UNCHANGED <<MULTIPROCESSING, N_WORKERS, design, oi, perms, wlog, qres>>
    /\ UNCHANGED pool_vars

\* run_permutation is entered and takes the else branch (no worker pool)
RunPermutationSource ==
    /\ opc = "added"
    /\ cd[1].do_permutation
    /\ \E ps \in PermSeqs(cd[1].samples) : perms' = ps
    /\ opc' = "loop"
    /\ oi' = 1
    /\ UNCHANGED <<MULTIPROCESSING, N_WORKERS, design, cd, wlog, qres>>
    /\ UNCHANGED pool_vars

\* run_permutation, else branch: dist.dist[i] = map_processor.max_stat(stat_map)
\* for the map test_func computed for the next permutation
SequentialStepSource ==
    /\ opc = "loop"
    /\ \E stat_map \in SourceMaps :
          cd' = [cd EXCEPT ![1].dist =
                    Some([Val(@) EXCEPT ![oi] = MaxStatSource(cd[1], stat_map)])]
    /\ oi' = IF oi = Len(perms) THEN 1 ELSE oi + 1
    /\ opc' = IF oi = Len(perms) THEN "finalize" ELSE "loop"
    /\ UNCHANGED <<MULTIPROCESSING, N_WORKERS, design, perms, wlog, qres>>
    /\ UNCHANGED pool_vars

\* a caller queries the finished distribution
QuerySource ==
    /\ opc = "done"
    /\ \E op \in SourceQueryOps, sub \in SourceSubs :
          LET a == AnswerSource(op, cd[1], sub)
          IN qres' = [op |-> op, finalized |-> cd[1].finalized,
                      has_original |-> cd[1].has_original,
                      error |-> a.error, value |-> a.value, sub |-> sub]
    /\ UNCHANGED <<MULTIPROCESSING, N_WORKERS, design, cd, opc, oi, perms, wlog>>
    /\ UNCHANGED pool_vars

RegionNext ==
    \/ AddOriginalSource
    \/ ConstructorReturn
    \/ RunPermutationSource
    \/ SequentialStepSource
    \/ RunFinalize
    \/ QuerySource

RegionSpec == RegionInit /\ [][RegionNext]_vars

(* ------------------- reducing one permutation's map ------------------- *)
\* a distribution over the source space has been constructed
ReducerInit ==
    /\ MULTIPROCESSING = 0
    /\ N_WORKERS = MaxWorkers
    /\ design = "single"
    /\ \E threshold \in Thresholds, tail \in Tails, criteria \in CriteriaArgs,
          parc \in {None, Some("source")}, full \in ConnectivityGraphs :
          /\ ValidArgs(threshold, criteria)
          /\ cd = [e \in Effects |->
                     IF e # 1 THEN ClusterDist_init(0, None, 0, << >>, FALSE)
                     ELSE SourceDist_init(1, threshold, tail, criteria, parc, full)]
    /\ opc = "init"
    /\ oi = 1
    /\ perms = << >>
    /\ permutation_queue = << >>
    /\ dist_queue = << >>
    /\ wpc = [w \in 1..MaxWorkers |-> "none"]
    /\ wjob = [w \in 1..MaxWorkers |-> NoJob]
    /\ dpc = "none"
    /\ di = 0
    /\ wlog = << >>
    /\ takes = [k \in 1..MaxSamples |-> 0]
    /\ qres = NoResult

\* map_processor.max_stat(stat_map) on the map of one permutation; qres keeps
\* the map and the value returned
MaxStatCall ==
    /\ opc = "init"
    /\ \E stat_map \in SourceMaps :
          qres' = [op |-> "max_stat", finalized |-> FALSE, has_original |-> FALSE,
                   error |-> "", value |-> Some(MaxStatSource(cd[1], stat_map)),
                   stat_map |-> stat_map]
    /\ UNCHANGED <<MULTIPROCESSING, N_WORKERS, design, cd, opc, oi, perms, wlog>>
    /\ UNCHANGED pool_vars

ReducerSpec == ReducerInit /\ [][MaxStatCall]_vars

(* ------------------------- the Cluster reducer ------------------------ *)
\* the samples of the reduced map that pass the threshold in the direction
\* of sign (1: above threshold, -1: below -threshold)
Beyond(sign) ==
    {j \in DOMAIN qres.stat_map : sign * qres.stat_map[j] > Val(cd[1].threshold)}

\* the samples an edge of the connectivity joins to a sample of S, within B
RECURSIVE Connected(_, _)
Connected(S, B) ==
    LET more == {j \in B : \E i \in S : <<i, j>> \in cd[1].connectivity
                                        \/ <<j, i>> \in cd[1].connectivity}
    IN IF more \subseteq S THEN S ELSE Connected(S \cup more, B)

\* the clusters of the reduced map, as sets of samples: the connected sets
\* of same-sign samples beyond the threshold for the signs the tail selects
\* that are at least as large as the minimum size
SurvivingClusters ==
    LET signs == IF cd[1].tail > 0 THEN {1} ELSE IF cd[1].tail < 0 THEN {-1} ELSE {1, -1}
        all == UNION {{Connected({j}, Beyond(sg)) : j \in Beyond(sg)} : sg \in signs}
    IN {c \in all : IsNone(cd[1].criteria)
                    \/ \A i \in DOMAIN Val(cd[1].criteria) :
                          Cardinality(c) >= Val(cd[1].criteria)[i]}

\* the largest |summed statistic| of the clusters in Cs, 0 if there is none
MaxAbsSum(Cs) == SetMax({Abs(SumOver(qres.stat_map, c)) : c \in Cs} \cup {0})

\* C24: for one permutation's map the Cluster reducer returns the maximum,
\* over the clusters that survive threshold and criteria, of the absolute
\* value of the cluster's summed statistic, 0 when no cluster survives; with
\* regions it returns for every region that maximum over the surviving
\* clusters inside the region.
C24_ClusterReducer ==
    (qres.op = "max_stat" /\ cd[1].kind = "cluster") =>
        IF IsNone(cd[1].parc)
        THEN Val(qres.value) = MaxAbsSum(SurvivingClusters)
        ELSE /\ DOMAIN Val(qres.value) = Regions
             /\ \A r \in Regions :
                   Val(qres.value)[r] =
                       MaxAbsSum({c \in SurvivingClusters : c \subseteq parc_indexes[r]})

C24_Witness ==
    /\ qres.op = "max_stat" /\ cd[1].kind = "cluster"
    /\ ~IsNone(cd[1].parc)
    /\ cd[1].tail = 0
    /\ Cardinality(SurvivingClusters) >= 2
    /\ \E r, q \in Regions :
          /\ Val(qres.value)[r] > Val(qres.value)[q]
          /\ Val(qres.value)[q] > 0
    /\ \E c \in SurvivingClusters : SumOver(qres.stat_map, c) < 0

(* ------------------ the order of the null distribution ---------------- *)
\* the permutations of the rows 1..n
RowOrders(n) == {f \in [1..n -> 1..n] : \A i, k \in 1..n : f[i] = f[k] => i = k}

\* d with the rows of its null distribution in the order f
Reordered(d, f) == [d EXCEPT !.dist = Some([i \in DOMAIN Val(@) |-> Val(@)[f[i]]])]

\* C23: the probability map and the cluster p-values a query returns are
\* those it returns for every reordering of the rows of the null
\* distribution, with scalar rows and with rows of one value per region,
\* with and without a region restriction.
C23_OrderIndependent ==
    (qres.op \in SourceQueryOps /\ qres.finalized /\ cd[1].do_permutation) =>
        \A f \in RowOrders(cd[1].samples) :
            LET a == AnswerSource(qres.op, Reordered(cd[1], f), qres.sub)
            IN a.error = qres.error /\ a.value = qres.value

C23_Witness ==
    /\ qres.op = "compute_probability_map" /\ qres.finalized /\ qres.error = ""
    /\ cd[1].do_permutation
    /\ ~IsNone(cd[1].parc)
    /\ qres.sub = None
    /\ \E f \in RowOrders(cd[1].samples) : Reordered(cd[1], f).dist # cd[1].dist
    /\ \E i \in 1..cd[1].samples : Val(cd[1].dist)[i][1] # Val(cd[1].dist)[i][2]
    /\ \E j \in DOMAIN Val(qres.value) : Val(qres.value)[j] \notin {0, cd[1].samples}

(* --------------------------- enhanced values -------------------------- *)
\* the original statistic and its enhanced map
TfceInput == Val(cd[1].original_param_map)
Enhanced == Val(cd[1].original_cluster_map)

\* sample j is at or beyond height k in the direction sg (1 or -1)
AtOrBeyond(j, k, sg) == sg * TfceInput[j] >= k

\* the size of the connected cluster of sample j at height k in direction sg:
\* the samples joined to j by samples that are all at or beyond the height
ClusterSizeAt(j, k, sg) ==
    Cardinality({i \in DOMAIN TfceInput :
                    \A m \in DOMAIN TfceInput :
                        ((i <= m /\ m <= j) \/ (j <= m /\ m <= i)) => AtOrBeyond(m, k, sg)})

\* the directions the tail selects
TailSigns == IF cd[1].tail > 0 THEN {1} ELSE IF cd[1].tail < 0 THEN {-1} ELSE {1, -1}

\* the map's extreme value in direction sg
Extreme(sg) == SetMax({sg * TfceInput[j] : j \in DOMAIN TfceInput})

Transformed(d, v) == IF d.tail = 0 THEN Abs(v) ELSE IF d.tail < 0 THEN -v ELSE v

\* the value sample j of the original map is compared with
Observed(d, j) ==
    IF d.kind = "tfce" THEN tfce(Val(d.original_param_map), d.tail)[j]
    ELSE Transformed(d, Val(d.original_param_map)[j])

\* the null statistic of permutation i
NullStatistic(d, i) ==
    IF d.kind = "tfce" THEN SetMax(Range(tfce(TestFunc(perms[i], 1), d.tail)))
    ELSE SetMax({Transformed(d, TestFunc(perms[i], 1)[j]) : j \in 1..d.shape})

\* C25: for the Raw and TFCE kinds with n permutations the probability map
\* at each sample is the number of permutations whose null statistic is
\* strictly greater than the sample's observed value (as numerator over n):
\* the enhanced value for TFCE; for Raw |stat| for tail 0, -stat for a
\* negative and stat for a positive tail, the transformation the Raw reducer
\* applies to the permuted maps.
C25_FreeProbability ==
    (/\ qres.op = "compute_probability_map"
     /\ cd[1].kind \in {"raw", "tfce"}
     /\ cd[1].finalized) =>
        /\ qres.error = ""
        /\ \A i \in 1..cd[1].samples : Val(cd[1].dist)[i] = NullStatistic(cd[1], i)
        /\ Val(qres.value) =
              [j \in 1..cd[1].shape |->
                  Cardinality({i \in 1..cd[1].samples :
                                  NullStatistic(cd[1], i) > Observed(cd[1], j)})]

C25_Witness ==
    /\ qres.op = "compute_probability_map"
    /\ cd[1].finalized
    /\ cd[1].samples = MaxSamples
    /\ qres.error = ""
    /\ \/ /\ cd[1].kind = "raw"
          /\ cd[1].tail < 0
          /\ \E j \in 1..cd[1].shape :
                /\ \E i \in 1..cd[1].samples : NullStatistic(cd[1], i) = Observed(cd[1], j)
                /\ Val(qres.value)[j] = 1
       \/ /\ cd[1].kind = "tfce"
          /\ \E j \in 1..cd[1].shape :
                /\ Observed(cd[1], j) > 0
                /\ Val(qres.value)[j] = 1

(* ------------------------------- peaks -------------------------------- *)
\* A map with two axes is a function of the index on axis 0 (the sources
\* when the first axis is not a grid) giving a function of the index on
\* axis 1 (time).
PeakRowIdx == 1..NSources
PeakColIdx == 1..PeakCols
PeakVals == {0, 1, 2}
PeakMaps == [PeakRowIdx -> [PeakColIdx -> PeakVals]]

AxLen(ax) == IF ax = 0 THEN NSources ELSE PeakCols
OtherIdx(ax) == IF ax = 0 THEN PeakColIdx ELSE PeakRowIdx

\* x.swapaxes(0, ax)[i][o]
At(a, ax, i, o) == IF ax = 0 THEN a[i][o] ELSE a[o][i]

\* outsa[i] = v, written through the swapped view
SetSlice(out, ax, i, v) ==
    [r \in PeakRowIdx |-> [c \in PeakColIdx |->
        IF ax = 0 /\ r = i THEN v[c]
        ELSE IF ax = 1 /\ c = i THEN v[r]
        ELSE out[r][c]]]

\* the forward loop over one grid axis, from step i on: diff[i] compares
\* slice i + 1 with slice i
RECURSIVE forward(_, _, _, _, _)
forward(x, out, kernel, ax, i) ==
    IF i > AxLen(ax) - 1 THEN out
    ELSE LET k2 == [o \in OtherIdx(ax) |->
                      LET diff == At(x, ax, i + 1, o) - At(x, ax, i, o)
                      IN IF diff > 0 THEN TRUE
                         ELSE IF diff < 0 THEN FALSE
                         ELSE kernel[o] /\ At(out, ax, i + 1, o)]
             out2 == SetSlice(out, ax, i + 1,
                              [o \in OtherIdx(ax) |-> At(out, ax, i + 1, o) /\ k2[o]])
         IN forward(x, out2, k2, ax, i + 1)

\* the backward loop over one grid axis, from step i down
RECURSIVE backward(_, _, _, _, _)
backward(x, out, kernel, ax, i) ==
    IF i < 1 THEN out
    ELSE LET k2 == [o \in OtherIdx(ax) |->
                      LET diff == At(x, ax, i + 1, o) - At(x, ax, i, o)
                      IN IF diff < 0 THEN TRUE
                         ELSE IF diff > 0 THEN FALSE
                         ELSE kernel[o] /\ At(out, ax, i, o)]
             out2 == SetSlice(out, ax, i,
                              [o \in OtherIdx(ax) |-> At(out, ax, i, o) /\ k2[o]])
         IN backward(x, out2, k2, ax, i - 1)

\* _find_peaks, else branch: one grid axis, kernel.fill(True) before each loop
grid_axis(x, out, ax) ==
    LET filled == [o \in OtherIdx(ax) |-> TRUE]
    IN backward(x, forward(x, out, filled, ax, 1), filled, ax, AxLen(ax) - 1)

\* np.in1d(ar, border) for one element v of ar: border is a Python set, which
\* np.asarray turns into an object array holding the set as its one element,
\* and no vertex number equals a set
in1d(v, border) == FALSE

\* `while border:` expand `no` to the equal-valued neighbours of border
RECURSIVE expand(_, _, _, _)
expand(data, conn, no, border) ==
    IF border = {} THEN no
    ELSE LET fwd == {c[2] : c \in {e \in conn : in1d(e[1], border) /\ data[e[1]] = data[e[2]]}}
             bwd == {c[1] : c \in {e \in conn : in1d(e[2], border) /\ data[e[1]] = data[e[2]]}}
             new == (fwd \cup bwd) \ no
         IN expand(data, conn, no \cup new, new)

\* _find_peaks, `ax == 0 and not self._all_adjacent`: every column of the
\* source axis
nad_axis(x, out, conn) ==
    LET column(i) ==
            LET data == [r \in PeakRowIdx |-> x[r][i]]
                outslice == [r \in PeakRowIdx |-> out[r][i]]
                under == {e[1] : e \in {c \in conn : data[c[1]] < data[c[2]]}}
                         \cup {e[2] : e \in {c \in conn : data[c[1]] > data[c[2]]}}
                no == expand(data, conn, under, under)
            IN IF \A r \in PeakRowIdx : ~outslice[r] THEN outslice
               ELSE IF no # {} THEN [r \in PeakRowIdx |-> outslice[r] /\ r \notin no]
               ELSE IF \E r \in PeakRowIdx : ~outslice[r] THEN [r \in PeakRowIdx |-> FALSE]
               ELSE outslice
    IN [r \in PeakRowIdx |-> [c \in PeakColIdx |-> column(c)[r]]]

\* _ClusterDist._find_peaks(x): the axes from the last to the first
_find_peaks(d, x) ==
    LET filled == [r \in PeakRowIdx |-> [c \in PeakColIdx |-> TRUE]]
        out1 == grid_axis(x, filled, 1)
    IN IF d.all_adjacent THEN grid_axis(x, out1, 0)
       ELSE nad_axis(x, out1, d.connectivity)

\* a threshold-free distribution over two axes: a grid, or sources by time
PeakInit ==
    /\ MULTIPROCESSING = 0
    /\ N_WORKERS = MaxWorkers
    /\ design = "single"
    /\ \E tail \in Tails, all_adjacent \in BOOLEAN, full \in ConnectivityGraphs :
          /\ all_adjacent => full = {<<s, s + 1>> : s \in 1..(NSources - 1)}
          /\ cd = [e \in Effects |->
                     IF e # 1 THEN ClusterDist_init(0, None, 0, << >>, FALSE)
                     ELSE [all_adjacent |-> all_adjacent,
                           connectivity |-> IF all_adjacent THEN {} ELSE connectivity(full, FALSE)]
                          @@ ClusterDist_init(0, None, tail, << >>, FALSE)]
    /\ opc = "init"
    /\ oi = 1
    /\ perms = << >>
    /\ permutation_queue = << >>
    /\ dist_queue = << >>
    /\ wpc = [w \in 1..MaxWorkers |-> "none"]
    /\ wjob = [w \in 1..MaxWorkers |-> NoJob]
    /\ dpc = "none"
    /\ di = 0
    /\ wlog = << >>
    /\ takes = [k \in 1..MaxSamples |-> 0]
    /\ qres = NoResult

\* find_peaks: peaks = self._find_peaks(self._original_cluster_map); qres
\* keeps the map and the boolean array returned
FindPeaksCall ==
    /\ opc = "init"
    /\ \E x \in PeakMaps :
          qres' = [op |-> "_find_peaks", finalized |-> FALSE, has_original |-> FALSE,
                   error |-> "", value |-> Some(_find_peaks(cd[1], x)), x |-> x]
    /\ UNCHANGED <<MULTIPROCESSING, N_WORKERS, design, cd, opc, oi, perms, wlog>>
    /\ UNCHANGED pool_vars

PeakSpec == PeakInit /\ [][FindPeaksCall]_vars

\* two samples are neighbours: next to each other on a grid axis, or joined
\* by an edge of the connectivity on the source axis
Neighbours(p, q) ==
    \/ /\ p[1] = q[1]
       /\ (p[2] = q[2] + 1 \/ q[2] = p[2] + 1)
    \/ /\ p[2] = q[2]
       /\ IF cd[1].all_adjacent THEN (p[1] = q[1] + 1 \/ q[1] = p[1] + 1)
          ELSE (<<p[1], q[1]>> \in cd[1].connectivity \/ <<q[1], p[1]>> \in cd[1].connectivity)

PeakSamples == PeakRowIdx \X PeakColIdx

\* the plateau of S: the samples of equal value connected to S
RECURSIVE Plateau(_)
Plateau(S) ==
    LET more == {q \in PeakSamples \ S :
                    \E p \in S : Neighbours(p, q) /\ qres.x[q[1]][q[2]] = qres.x[p[1]][p[2]]}
    IN IF more = {} THEN S ELSE Plateau(S \cup more)

\* no neighbour of the plateau of p has a greater value
PlateauIsPeak(p) ==
    \A q \in Plateau({p}) : \A n \in PeakSamples :
        Neighbours(q, n) => qres.x[n[1]][n[2]] <= qres.x[q[1]][q[2]]

\* C27: _find_peaks marks a sample True iff it belongs to a plateau (a
\* maximal connected set of equal-valued samples under grid adjacency, or the
\* connectivity on the non-grid axis) none of whose neighbouring samples has a
\* greater value, borders counting as lower; so every plateau is marked
\* entirely or not at all.
C27_PlateauPeaks ==
    (qres.op = "_find_peaks") =>
        \A p \in PeakSamples : Val(qres.value)[p[1]][p[2]] <=> PlateauIsPeak(p)

\* C27, for maps on a grid only
C27_GridPlateauPeaks ==
    (qres.op = "_find_peaks" /\ cd[1].all_adjacent) =>
        \A p \in PeakSamples : Val(qres.value)[p[1]][p[2]] <=> PlateauIsPeak(p)

\* C27, second half: find_peaks on a Cluster-kind distribution raises an error
C27_ClusterKindRaises ==
    (qres.op = "find_peaks" /\ cd[1].kind = "cluster") => qres.error = "RuntimeError"

(* ------------------------- multi-effect rows -------------------------- *)
\* C28: in a multi-effect run, pooled or sequential, row i of the null
\* distribution of every effect with do_permutation set is computed from the
\* same permutation; an effect whose original map left do_permutation false
\* has no buffer, receives no write and is not finalized a second time.
C28_MultiEffectRows ==
    (design = "multi") =>
        /\ \A a, b \in DOMAIN wlog : wlog[a].row = wlog[b].row => wlog[a].k = wlog[b].k
        /\ \A a \in DOMAIN wlog : cd[wlog[a].e].do_permutation
        /\ (opc = "done") =>
              \A e \in Effects : cd[e].do_permutation =>
                  \A i \in 1..cd[e].samples :
                      \E a \in DOMAIN wlog :
                          /\ wlog[a].e = e /\ wlog[a].row = i
                          /\ Val(cd[e].dist)[i] =
                                MaxStat(me_args(e), TestFunc(perms[wlog[a].k], e))
        /\ \A e \in Effects : (cd[e].has_original /\ ~cd[e].do_permutation) =>
              /\ IsNone(cd[e].dist) /\ IsNone(cd[e].dist_array)
              /\ cd[e].nfinalize = 1

C28_Witness ==
    /\ design = "multi" /\ opc = "done" /\ MULTIPROCESSING = 1
    /\ \A e \in Effects : cd[e].do_permutation /\ cd[e].samples = MaxSamples
    /\ \E a \in DOMAIN wlog : wlog[a].row # wlog[a].k
    /\ perms[1] # perms[2]
    /\ \E e \in Effects : Val(cd[e].dist)[1] # Val(cd[e].dist)[2]

(* --------------------- queries restricted by **sub -------------------- *)
\* the keyword arguments sub = {'time': arg} of a query: arg is None, or a
\* window (tstart, tstop), given as the first and last index of the slice
\* UTS._slice makes of it
SubArgs ==
    {[name |-> "time", arg |-> None]}
    \cup {[name |-> "time", arg |-> Some(w)] :
            w \in {<<1, 1>>, <<1, MapLen>>, <<MapLen, MapLen>>}}

\* NDVar.sub(**sub): the samples of the map the returned NDVar's x refers to.
\* With arg None no axis is indexed and x is the array itself; a slice gives
\* a numpy view: in both cases the same memory.
NDVar_sub(shape, sub) ==
    IF IsNone(sub.arg) THEN 1..shape
    ELSE {j \in 1..shape : Val(sub.arg)[1] <= j /\ j <= Val(sub.arg)[2]}

\* _aggregate_dist(**sub) of a distribution without parcellation
\* (_dist_dims is None)
aggregate_dist_sub(d) == Raise("TypeError")

\* _ClusterDist.compute_probability_map(**sub)
compute_probability_map_sub(d, sub) ==
    IF d.samples = 0 THEN Raise("RuntimeError")
    ELSE IF d.kind = "cluster"
    THEN IF ~d.has_original THEN Raise("AttributeError")
         ELSE IF d.n_clusters # 0 THEN aggregate_dist_sub(d)
         ELSE Ok([j \in 1..d.shape |-> d.samples])
    ELSE IF ~d.finalized THEN Raise("AttributeError")
         ELSE aggregate_dist_sub(d)

\* param_map.x *= c_mask on the samples idx of the stored map x: c_mask is
\* broadcast when it has one element, and numpy raises ValueError when the
\* shapes do not fit; the outcome with the stored map afterwards
InPlaceMultiply(x, idx, c_mask) ==
    LET w == Cardinality(idx)
        m == Len(c_mask)
        lo == IF idx = {} THEN 1 ELSE SetMin(idx)
        after == [j \in DOMAIN x |->
                    IF j \in idx /\ ~c_mask[IF m = 1 THEN 1 ELSE j - lo + 1]
                    THEN 0 ELSE x[j]]
    IN IF m = w \/ m = 1
       THEN [error |-> "", value |-> Some([k \in 1..w |-> after[lo + k - 1]]),
             stored |-> after]
       ELSE [error |-> "ValueError", value |-> None, stored |-> x]

\* _ClusterDist.masked_parameter_map(pmin, **sub) with keyword arguments:
\* param_map = self.parameter_map.sub(**sub); the outcome and the original
\* parameter map as stored afterwards
masked_parameter_map_sub(d, pmin_arg, sub) ==
    LET pmin == IF IsNone(pmin_arg) THEN <<1, 1>> ELSE Val(pmin_arg)
        x == Val(d.original_param_map)
        idx == NDVar_sub(d.shape, sub)
        failed(err) == [error |-> err, value |-> None, stored |-> x]
    IN IF pmin[1] = pmin[2]
       THEN IF d.kind # "cluster" THEN failed("ValueError")
            ELSE InPlaceMultiply(x, idx,
                    [j \in 1..d.shape |-> Val(d.original_cluster_map)[j] # 0])
       ELSE LET pm == compute_probability_map_sub(d, sub)
            IN IF pm.error # "" THEN failed(pm.error)
               ELSE InPlaceMultiply(x, idx,
                       [j \in DOMAIN Val(pm.value) |->
                           LessEqualPmin(Val(pm.value)[j], d.samples, pmin)])

\* _ClusterDist.clusters(pmin=None, **sub): the cluster table (id, v)
clusters_sub(d, sub) ==
    IF d.kind = "cluster"
    THEN LET idx == NDVar_sub(d.shape, sub)
             cluster_map == Val(d.original_cluster_map)
             cids == SortedSeq({cluster_map[j] : j \in idx} \ {0})
             cluster_v == [i \in DOMAIN cids |->
                              SumOver(Val(d.original_param_map),
                                      {j \in idx : cluster_map[j] = cids[i]})]
         IN IF Len(cids) > 0 /\ d.samples # 0 THEN aggregate_dist_sub(d)
            ELSE Ok([i \in DOMAIN cids |-> [id |-> cids[i], v |-> cluster_v[i]]])
    ELSE compute_probability_map_sub(d, sub)

SubQueryOps == {"clusters", "compute_probability_map", "masked_parameter_map"}

AnswerSub(op, d, pmin, sub) ==
    IF op = "masked_parameter_map" THEN masked_parameter_map_sub(d, pmin, sub)
    ELSE [stored |-> Val(d.original_param_map)]
         @@ (IF op = "clusters" THEN clusters_sub(d, sub)
             ELSE compute_probability_map_sub(d, sub))

\* a caller queries the finalized first distribution with keyword arguments
QuerySub ==
    /\ opc \in {"added", "done"}
    /\ cd[1].finalized
    /\ \E op \in SubQueryOps : \E pmin \in QueryPmins(op) : \E sub \in SubArgs :
          LET d == cd[1]
              a == AnswerSub(op, d, pmin, sub)
          IN /\ qres' = [op |-> op, finalized |-> d.finalized,
                         has_original |-> d.has_original,
                         error |-> a.error, value |-> a.value, pmin |-> pmin,
                         sub |-> sub]
             /\ cd' = [cd EXCEPT ![1].original_param_map = Some(a.stored)]
    /\ UNCHANGED <<MULTIPROCESSING, N_WORKERS, design, opc, oi, perms, wlog>>
    /\ UNCHANGED pool_vars

\* a distribution of any kind, permuted in one process
SubInit ==
    /\ MULTIPROCESSING = 0
    /\ N_WORKERS = MaxWorkers
    /\ design = "single"
    /\ \E samples \in 0..MaxSamples, threshold \in Thresholds, tail \in Tails,
          window \in Windows :
            cd = [e \in Effects |->
                    IF e # 1 THEN ClusterDist_init(0, None, 0, << >>, FALSE)
                    ELSE with_window(
                            ClusterDist_init(samples, threshold, tail, << >>, FALSE),
                            window[1], window[2])]
    /\ opc = "init"
    /\ oi = 1
    /\ perms = << >>
    /\ permutation_queue = << >>
    /\ dist_queue = << >>
    /\ wpc = [w \in 1..MaxWorkers |-> "none"]
    /\ wjob = [w \in 1..MaxWorkers |-> NoJob]
    /\ dpc = "none"
    /\ di = 0
    /\ wlog = << >>
    /\ takes = [k \in 1..MaxSamples |-> 0]
    /\ qres = NoResult

SubNext ==
    \/ AddOriginal
    \/ ConstructorReturn
    \/ RunPermutation
    \/ SequentialStep
    \/ RunFinalize
    \/ Query
    \/ QuerySub

SubSpec == SubInit /\ [][SubNext]_vars

(* --------------------------- queries are pure ------------------------- *)
\* the step is a query of one of the five kinds on the finalized distribution
QueryStep ==
    /\ cd[1].finalized
    /\ UNCHANGED <<opc, oi, perms, wlog>>
    /\ qres'.op \in {"clusters", "cluster", "find_peaks", "compute_probability_map",
                     "masked_parameter_map"}
    /\ \/ cd' # cd
       \/ qres' # qres

\* the answer the query recorded in q gives on distribution d
AnswerAgain(q, d) ==
    IF "sub" \in DOMAIN q
    THEN LET a == AnswerSub(q.op, d, q.pmin, q.sub)
         IN [error |-> a.error, value |-> a.value]
    ELSE Answer(q.op, d, q.pmin)

\* C29: no post-finalize query, with or without a sub restriction, changes
\* the stored original parameter map, the original cluster map, the cluster
\* ids or the null distribution, and repeating the query returns the same
\* result.
C29_QueriesPure ==
    [][QueryStep =>
          /\ cd'[1].original_param_map = cd[1].original_param_map
          /\ cd'[1].original_cluster_map = cd[1].original_cluster_map
          /\ cd'[1].cids = cd[1].cids
          /\ cd'[1].dist = cd[1].dist
          /\ AnswerAgain(qres', cd'[1]) = [error |-> qres'.error, value |-> qres'.value]]_vars

\* C29 without keyword arguments: the queries called without **sub
C29_PlainQueriesPure ==
    [][(QueryStep /\ "sub" \notin DOMAIN qres') =>
          /\ cd'[1].original_param_map = cd[1].original_param_map
          /\ cd'[1].original_cluster_map = cd[1].original_cluster_map
          /\ cd'[1].cids = cd[1].cids
          /\ cd'[1].dist = cd[1].dist
          /\ AnswerAgain(qres', cd'[1]) = [error |-> qres'.error, value |-> qres'.value]]_vars

(* ------------------ configure() between the two steps ----------------- *)
\* multiprocessing.cpu_count()
cpu_count == MaxWorkers

\* the ncpus arguments of configure: 0, -1 and the positive counts
NCpus == {0, -1} \cup (1..(MaxWorkers + 1))

Min(a, b) == IF a <= b THEN a ELSE b

\* configure(ncpus), called before add_original or between add_original and
\* the run
Configure ==
    /\ opc \in {"init", "added"}
    /\ \E ncpus \in NCpus :
          IF ncpus = 0
          THEN MULTIPROCESSING' = 0 /\ N_WORKERS' = N_WORKERS
          ELSE IF ncpus < 0
          THEN MULTIPROCESSING' = 1 /\ N_WORKERS' = cpu_count
          ELSE MULTIPROCESSING' = 1 /\ N_WORKERS' = Min(ncpus, cpu_count)
    /\ UNCHANGED <<design, cd, opc, oi, perms, wlog, qres>>
    /\ UNCHANGED pool_vars

\* distribution_worker: np.frombuffer(dist_array, ...) with dist_array None
\* raises, the process ends with the exception
DistributionWorkerRaise ==
    /\ design = "single"
    /\ dpc = "run"
    /\ IsNone(cd[1].dist_array)
    /\ dpc' = "failed"
    /\ UNCHANGED <<MULTIPROCESSING, N_WORKERS, design, cd, opc, oi, perms,
                   permutation_queue, dist_queue, wpc, wjob, di, wlog, takes, qres>>

ConfigInit ==
    /\ \/ MULTIPROCESSING = 1 /\ N_WORKERS \in 1..MaxWorkers
       \/ MULTIPROCESSING = 0 /\ N_WORKERS = MaxWorkers
    /\ design \in {"single", "multi"}
    /\ \E threshold \in Thresholds, tail \in Tails :
            /\ design = "multi" => tail = 1
            /\ cd = [e \in Effects |->
                        IF design = "single" /\ e # 1
                        THEN ClusterDist_init(0, None, 0, << >>, FALSE)
                        ELSE ClusterDist_init(MaxSamples, threshold, tail, << >>, FALSE)]
    /\ opc = "init"
    /\ oi = 1
    /\ perms = << >>
    /\ permutation_queue = << >>
    /\ dist_queue = << >>
    /\ wpc = [w \in 1..MaxWorkers |-> "none"]
    /\ wjob = [w \in 1..MaxWorkers |-> NoJob]
    /\ dpc = "none"
    /\ di = 0
    /\ wlog = << >>
    /\ takes = [k \in 1..MaxSamples |-> 0]
    /\ qres = NoResult

ConfigNext ==
    \/ Orchestrator
    \/ \E w \in 1..MaxWorkers : Worker(w)
    \/ Writer
    \/ Configure
    \/ DistributionWorkerRaise

ConfigSpec == ConfigInit /\ [][ConfigNext]_vars

\* the run is on the pooled path: between setup_workers and the last join
OnPooledPath == opc \in {"put", "sentinel", "join"}

\* C30: whenever a run takes the pooled path, every distribution being
\* permuted has a process-shared buffer (dist_array is not None), also when
\* configure() switched multiprocessing between add_original and the run.
C30_PooledHasBuffer ==
    OnPooledPath =>
        \A i \in DOMAIN dists :
            cd[dists[i]].do_permutation => ~IsNone(cd[dists[i]].dist_array)

\* C30, consequence: once the constructor has returned from a pooled run,
\* every row of a permuted distribution was written by the distribution
\* worker
C30_RowsWritten ==
    (opc = "done" /\ dpc # "none") =>
        \A i \in DOMAIN dists :
            cd[dists[i]].do_permutation =>
                \A row \in 1..cd[dists[i]].samples :
                    \E a \in DOMAIN wlog : wlog[a].e = dists[i] /\ wlog[a].row = row

\* C30 without configure(): the same statement for the program as the test
\* constructors run it
C30_PooledHasBufferNoConfigure ==
    (OnPooledPath /\ MULTIPROCESSING = 1) =>
        \A i \in DOMAIN dists :
            cd[dists[i]].do_permutation => ~IsNone(cd[dists[i]].dist_array)

====
